---------------------------- MODULE Spec2Model ----------------------------
(***************************************************************************)
(* A model of the gravitraxconnect library: the Bridge class of            *)
(* gravitrax_bridge.py (connection life cycle, inbound notification        *)
(* handler with its duplicate window, outbound senders with the message-ID *)
(* counter) and the checksum functions.                                    *)
(*                                                                         *)
(* The library runs on one asyncio event loop: code between two awaits     *)
(* runs without interruption, so every action below is the code from one   *)
(* suspension point to the next.  The BLE transport (bleak) and the caller *)
(* are the environment.  asyncio.wait_for raises the builtin TimeoutError  *)
(* (Python 3.11 and newer), which is what the except clauses catch and the *)
(* function tests rely on.                                                 *)
(***************************************************************************)
EXTENDS Integers, Sequences, FiniteSets, TLC

(***************************************************************************)
(* Bounds of the model.                                                    *)
(***************************************************************************)
\* BleakClient objects the Bridge may create (one per connect that finds a device)
MaxClients == 2
\* notification handler tasks that may be in flight at once
MaxHandlers == 2
\* distinct inbound frames the device may produce
NumFrames == 13
\* concurrent send_signal calls
NumSenders == 3
\* largest value of the resends argument
MaxResends == 2
\* disconnect() calls the caller makes
MaxDisconnects == 1
\* notifications the device delivers in a life-cycle run
MaxNotifs == 2

(***************************************************************************)
(* Program constants.                                                      *)
(***************************************************************************)
\* the message-ID counter wraps at a byte
IdModulus == 256
\* the duplicate window keeps the last 12 accepted frames
WindowSize == 12
\* wait_for(self.connect(...), timeout=15) in __reconnect
ReconnectTimeout == 15
\* default timeout of connect(), used for the scan and for client.connect
ConnectTimeout == 25
\* gravitrax_constants.MSG_DEFAULT_HEADER
MSG_DEFAULT_HEADER == 19
\* gravitrax_constants.STONE_BRIDGE
STONE_BRIDGE == 6
\* a frame is 7 bytes
FrameLen == 7

\* Python's None where an int is expected
NoneInt == 0 - 1
\* Python's None where a callback, client or string is expected
None == "None"

Byte == 0 .. 255

(***************************************************************************)
(* Signal codec: calc_checksum and add_checksum.                           *)
(***************************************************************************)
\* a variant of calc_checksum that does not reduce the sum modulo 256
calc_checksum_NoWrap(data, for_received) ==
    IF Len(data) # FrameLen THEN NoneInt
    ELSE LET checksum == data[1] + data[2] + data[3] + data[4] + data[5]
         IN  IF for_received THEN (checksum + data[7] - 1) % 256 ELSE checksum

\* a variant of calc_checksum that adds the color byte without the offset -1
calc_checksum_NoOffset(data, for_received) ==
    IF Len(data) # FrameLen THEN NoneInt
    ELSE LET checksum == (data[1] + data[2] + data[3] + data[4] + data[5]) % 256
         IN  IF for_received THEN (checksum + data[7]) % 256 ELSE checksum

calc_checksum(data, for_received) ==
    IF Len(data) # FrameLen THEN NoneInt
    ELSE LET checksum == (data[1] + data[2] + data[3] + data[4] + data[5]) % 256
         IN  IF for_received THEN (checksum + data[7] - 1) % 256 ELSE checksum

\* a variant of add_checksum that accepts inputs longer than 7 bytes
add_checksum_AtLeast7(data, for_received) ==
    IF Len(data) < FrameLen THEN <<>>
    ELSE << data[1], data[2], data[3], data[4], data[5],
            (data[1] + data[2] + data[3] + data[4] + data[5]) % 256, data[7] >>

\* None is modelled as the empty sequence (a result is 7 bytes long)
add_checksum(data, for_received) ==
    IF Len(data) # FrameLen THEN <<>>
    ELSE << data[1], data[2], data[3], data[4], data[5],
            calc_checksum(data, for_received), data[7] >>

(***************************************************************************)
(* The text form the notification handler works on:                        *)
(*   message = " ".join("{:02x}".format(x) for x in data)                  *)
(* a sequence of characters, two lower-case hex digits per byte, one space *)
(* between bytes.                                                          *)
(***************************************************************************)
HexDigits == << "0", "1", "2", "3", "4", "5", "6", "7",
                "8", "9", "a", "b", "c", "d", "e", "f" >>

\* the class [0-9a-fA-F] of the regular expression
HexChars == { HexDigits[i] : i \in 1 .. 16 } \cup { "A", "B", "C", "D", "E", "F" }

\* "{:02x}".format(x)
Format02x(x) == << HexDigits[(x \div 16) + 1], HexDigits[(x % 16) + 1] >>

RECURSIVE JoinHex(_)
JoinHex(data) ==
    IF Len(data) = 0 THEN <<>>
    ELSE IF Len(data) = 1 THEN Format02x(data[1])
    ELSE Format02x(data[1]) \o << " " >> \o JoinHex(Tail(data))

\* int(c, base=16) of one character
HexVal(c) ==
    IF c \in { "A", "a" } THEN 10
    ELSE IF c \in { "B", "b" } THEN 11
    ELSE IF c \in { "C", "c" } THEN 12
    ELSE IF c \in { "D", "d" } THEN 13
    ELSE IF c \in { "E", "e" } THEN 14
    ELSE IF c \in { "F", "f" } THEN 15
    ELSE CHOOSE v \in 0 .. 9 : HexDigits[v + 1] = c

\* int(s[i:i+2], base=16): i is the Python (0-based) offset
ParseHex(s, i) == 16 * HexVal(s[i + 1]) + HexVal(s[i + 2])

\* length of a match of 13(\s[0-9a-fA-F]{2}){6}
MatchLen == 2 + 6 * 3

\* a variant of MatchAt that takes any byte for the header
MatchAt_AnyHeader(msg, pos) ==
    /\ pos + MatchLen - 1 <= Len(msg)
    /\ msg[pos] \in HexChars
    /\ msg[pos + 1] \in HexChars
    /\ \A k \in 0 .. 5 :
          /\ msg[pos + 2 + 3 * k] = " "
          /\ msg[pos + 3 + 3 * k] \in HexChars
          /\ msg[pos + 4 + 3 * k] \in HexChars

\* does the regular expression match at (1-based) position pos
MatchAt(msg, pos) ==
    /\ pos + MatchLen - 1 <= Len(msg)
    /\ msg[pos] = "1"
    /\ msg[pos + 1] = "3"
    /\ \A k \in 0 .. 5 :
          /\ msg[pos + 2 + 3 * k] = " "
          /\ msg[pos + 3 + 3 * k] \in HexChars
          /\ msg[pos + 4 + 3 * k] \in HexChars

\* a variant of FindIter that goes on one character behind the start of a match
RECURSIVE FindIter_Overlapping(_, _)
FindIter_Overlapping(msg, pos) ==
    IF pos + MatchLen - 1 > Len(msg) THEN <<>>
    ELSE IF MatchAt(msg, pos)
         THEN << SubSeq(msg, pos, pos + MatchLen - 1) >> \o FindIter_Overlapping(msg, pos + 1)
         ELSE FindIter_Overlapping(msg, pos + 1)

\* re.finditer: leftmost matches, non-overlapping, left to right
RECURSIVE FindIter(_, _)
FindIter(msg, pos) ==
    IF pos + MatchLen - 1 > Len(msg) THEN <<>>
    ELSE IF MatchAt(msg, pos)
         THEN << SubSeq(msg, pos, pos + MatchLen - 1) >> \o FindIter(msg, pos + MatchLen)
         ELSE FindIter(msg, pos + 1)

\* recv_signals of __notification_handler
recv_signals(data) == FindIter(JoinHex(data), 1)

\* a variant of DecodeSignal that takes Id and Checksum from each other's place
DecodeSignal_Swapped(recv_signal) ==
    << ParseHex(recv_signal, 0), ParseHex(recv_signal, 3), ParseHex(recv_signal, 6),
       ParseHex(recv_signal, 9), ParseHex(recv_signal, 15), ParseHex(recv_signal, 12),
       ParseHex(recv_signal, 18) >>

\* the list  signal  decoded from one match
DecodeSignal(recv_signal) ==
    << ParseHex(recv_signal, 0), ParseHex(recv_signal, 3), ParseHex(recv_signal, 6),
       ParseHex(recv_signal, 9), ParseHex(recv_signal, 12), ParseHex(recv_signal, 15),
       ParseHex(recv_signal, 18) >>

(***************************************************************************)
(* State.                                                                  *)
(***************************************************************************)
VARIABLES
    \* ---- fields of Bridge (Bridge.__init__) ----
    client,                \* self.client: 0 for None, else the BleakClient object
    dc_callback,           \* self.dc_callback
    try_reconnect,         \* self.try_reconnect
    restart_notifications, \* self.restart_notifications
    noti_callback,         \* self.noti_callback
    noti_lock,             \* self.__noti_lock: holder and FIFO waiters
    send_lock,             \* self.__send_lock: holder and FIFO waiters
    address,               \* self.__address
    next_send_id,          \* self.__next_send_id
    user_disconnected,     \* self.__user_disconnected
    last_notifications,    \* self.__last_notifications
    \* ---- the transport: the BleakClient objects created so far ----
    conns,
    \* ---- tasks and their positions ----
    user,                  \* the caller's operation in flight
    cframe,                \* the activations of connect(): the caller's, __reconnect's
    reconn,                \* the __reconnect task
    dcb,                   \* the activation of __disconnect_callback (synchronous)
    handlers,              \* the __notification_handler tasks
    senders,               \* the send_signal / send_bytes calls
    periodic,              \* the send_periodic call
    \* ---- observations ----
    dc_calls,              \* invocations of the disconnect callback, in order
    noti_count,            \* invocations of the notification callback
    noti_last,             \* the last invocation of the notification callback
    delivered,             \* per decoded frame: invocations that carried it
    arrived,               \* the inbound stream so far (see NotiEnv)
    wire,                  \* the frames written on the transport, with their number
    id_start,              \* the message-ID counter before the first send_signal call
    codec,                 \* one input of calc_checksum / add_checksum and the results
    call_args              \* the arguments of the caller's latest checked call

bridgeCfg == << dc_callback, try_reconnect, restart_notifications >>
bridgeConn == << client, address, user_disconnected >>
bridgeNoti == << noti_callback, noti_lock, last_notifications >>
bridgeSend == << send_lock, next_send_id >>
connTasks == << user, cframe, reconn, dcb >>
notiObs == << noti_count, noti_last, delivered >>
sendObs == << wire, id_start >>

vars == << client, dc_callback, try_reconnect, restart_notifications, noti_callback,
           noti_lock, send_lock, address, next_send_id, user_disconnected,
           last_notifications, conns, user, cframe, reconn, dcb, handlers, senders,
           periodic, dc_calls, noti_count, noti_last, delivered, arrived, wire,
           id_start, codec, call_args >>

Clients == 1 .. MaxClients
Handlers == 1 .. MaxHandlers
Senders == 1 .. NumSenders

\* an asyncio.Lock that nobody holds
FreeLock == [ holder |-> 0, waiters |-> <<>> ]

\* a BleakClient object that does not exist yet
\* state: "unborn", "created" (constructed, not connected), "connected", "closed";
\* closing: a client.disconnect() is in progress; notifying: start_notify is in
\* effect; by: the connect() activation that created it; user_req: the caller
\* asked for its disconnection with _user=True while it was connected
NoConn ==
    [ state |-> "unborn", closing |-> FALSE, notifying |-> FALSE, by |-> 0,
      user_req |-> FALSE ]

\* a BleakClient that is connected
LiveConn(notifying) == [ NoConn EXCEPT !.state = "connected", !.notifying = notifying ]

\* ord: place in the event loop's ready queue while the task has not run yet;
\* c: the client whose subscription delivered the payload; dis: the payload
\* arrived after the caller's notification_disable() had returned True
IdleHandler ==
    [ pc |-> "free", ord |-> 0, data |-> <<>>, sigs |-> <<>>, i |-> 0, cb |-> None,
      c |-> 0, dis |-> FALSE ]

\* no call of calc_checksum or add_checksum made yet on the input  data
\* sum, out: what calc_checksum and add_checksum returned
NoCodecCall(data, for_received) ==
    [ data |-> data, for_received |-> for_received, calc_called |-> FALSE,
      sum |-> NoneInt, add_called |-> FALSE, out |-> <<>> ]

IdleCodec == NoCodecCall(<<>>, FALSE)

\* op: "connect" or "notification_enable"; the kinds of its arguments (dc:
\* dc_callback, id: name_or_addr, timeout; cb: callback, uuid); outcome: "none",
\* "TypeError" (raised before the first await) or the transport operation the
\* call went on to ("scan", "start_notify")
NoCall ==
    [ op |-> "none", dc |-> "None", id |-> "str", timeout |-> "number",
      cb |-> "callable", uuid |-> "str", outcome |-> "none" ]

\* __disconnect_callback is synchronous: while it is between its two halves
\* (dcb.pc = "decide") no task and no callback of the event loop runs
Running == dcb.pc = "idle"

(***************************************************************************)
(* Bridge.__init__, and the environment before anything has happened.      *)
(***************************************************************************)
BridgeInit ==
    /\ client = 0
    /\ dc_callback = None
    /\ try_reconnect = FALSE
    /\ restart_notifications = TRUE
    /\ noti_callback = None
    /\ noti_lock = FreeLock
    /\ send_lock = FreeLock
    /\ address = None
    /\ next_send_id = 0
    /\ user_disconnected = FALSE
    /\ last_notifications = <<>>

(***************************************************************************)
(* Inbound path: __notification_handler.                                   *)
(***************************************************************************)
\* a variant of PopOldest that pops one entry too many
RECURSIVE PopOldest_OneMore(_)
PopOldest_OneMore(w) == IF Len(w) >= WindowSize THEN PopOldest_OneMore(Tail(w)) ELSE w

\* while len(self.__last_notifications) > 12: self.__last_notifications.pop(0)
RECURSIVE PopOldest(_)
PopOldest(w) == IF Len(w) > WindowSize THEN PopOldest(Tail(w)) ELSE w

\* a variant of InWindow that looks at the newest entry only
InWindow_NewestOnly(recv_signal, w) == Len(w) > 0 /\ w[Len(w)] = recv_signal

\* "recv_signal in self.__last_notifications"
InWindow(recv_signal, w) == \E j \in 1 .. Len(w) : w[j] = recv_signal

\* a variant of WindowAppend that puts the new entry in front of the others
WindowAppend_Front(w, recv_signal) == PopOldest(<< recv_signal >> \o w)

\* self.__last_notifications.append(recv_signal), then the while loop
WindowAppend(w, recv_signal) == PopOldest(Append(w, recv_signal))

BagAdd(b, e) == IF e \in DOMAIN b THEN [ b EXCEPT ![e] = @ + 1 ] ELSE b @@ (e :> 1)

\* the notification callback is invoked with these keyword arguments
RecordCall(cb, signal, data) ==
    /\ noti_count' = noti_count + 1
    /\ noti_last' = [ cb |-> cb, signal |-> signal, Data |-> data ]
    /\ delivered' = IF signal = <<>> THEN delivered ELSE BagAdd(delivered, signal)

\* tasks created and not yet run
NotStarted == { g \in Handlers : handlers[g].pc = "start" }

\* bleak runs the coroutine handler as a new task for each notification; the
\* event loop runs new tasks in the order of their creation
SpawnHandler(data, c) ==
    \E h \in Handlers :
        /\ handlers[h].pc = "free"
        /\ \A g \in Handlers : g < h => handlers[g].pc # "free"
        /\ handlers' = [ handlers EXCEPT ![h] =
                            [ IdleHandler EXCEPT !.pc = "start",
                                                 !.ord = Cardinality(NotStarted) + 1,
                                                 !.data = data, !.c = c,
                                                 !.dis = user.disabled ] ]

\* the handlers after task h has had its first run and became r
AfterFirstRun(h, r) ==
    [ g \in Handlers |->
        IF g = h THEN [ r EXCEPT !.ord = 0 ]
        ELSE IF handlers[g].pc = "start" THEN [ handlers[g] EXCEPT !.ord = @ - 1 ]
        ELSE handlers[g] ]

\* first run of the task: build message, find recv_signals, then either the
\* unstructured call or the acquisition of __noti_lock
HandlerRun(h) ==
    /\ Running
    /\ handlers[h].pc = "start"
    /\ handlers[h].ord = 1
    /\ LET sigs == recv_signals(handlers[h].data)
       IN  IF Len(sigs) = 0
           THEN /\ IF noti_callback = None
                   THEN \* calling None raises TypeError, which ends the task
                        /\ handlers' = AfterFirstRun(h, IdleHandler)
                        /\ UNCHANGED notiObs
                   ELSE /\ handlers' = AfterFirstRun(h,
                                [ handlers[h] EXCEPT !.pc = "cb_u", !.cb = noti_callback ])
                        /\ RecordCall(noti_callback, <<>>, handlers[h].data)
                /\ UNCHANGED noti_lock
           ELSE /\ IF noti_lock.holder = 0 /\ noti_lock.waiters = <<>>
                   THEN /\ noti_lock' = [ noti_lock EXCEPT !.holder = h ]
                        /\ handlers' = AfterFirstRun(h,
                                [ handlers[h] EXCEPT !.pc = "next", !.sigs = sigs, !.i = 1 ])
                   ELSE /\ noti_lock' = [ noti_lock EXCEPT !.waiters = Append(@, h) ]
                        /\ handlers' = AfterFirstRun(h,
                                [ handlers[h] EXCEPT !.pc = "wait", !.sigs = sigs ])
                /\ UNCHANGED notiObs
    /\ UNCHANGED << bridgeCfg, bridgeConn, noti_callback, last_notifications,
                    bridgeSend, conns, connTasks, senders, dc_calls, arrived, sendObs,
                    periodic, codec, call_args >>

\* await self.__noti_lock.acquire() returns: the lock is free and h waited longest
HandlerAcquire(h) ==
    /\ Running
    /\ handlers[h].pc = "wait"
    /\ noti_lock.holder = 0
    /\ noti_lock.waiters # <<>>
    /\ Head(noti_lock.waiters) = h
    /\ noti_lock' = [ holder |-> h, waiters |-> Tail(noti_lock.waiters) ]
    /\ handlers' = [ handlers EXCEPT ![h].pc = "next", ![h].i = 1 ]
    /\ UNCHANGED << bridgeCfg, bridgeConn, noti_callback, last_notifications,
                    bridgeSend, conns, connTasks, senders, dc_calls, notiObs,
                    arrived, sendObs,
                    periodic, codec, call_args >>

\* a variant of Dispatches that drops a frame whose checksum is wrong
Dispatches_ValidOnly(signal) == signal[6] = calc_checksum(signal, TRUE)

\* "if signal[5] != calc_checksum(signal, for_received=True): log_print(...)":
\* the comparison only logs, the callback is invoked whatever its outcome
Dispatches(signal) == TRUE

\* a variant of FinallyRelease that leaves the lock with the task that ends
FinallyRelease_Skipped(lock) == lock

\* "finally: self.__noti_lock.release()"
FinallyRelease(lock) == [ lock EXCEPT !.holder = 0 ]

\* one iteration of  for recv_signal in recv_signals , or the finally clause
HandlerNext(h) ==
    /\ Running
    /\ handlers[h].pc = "next"
    /\ LET i == handlers[h].i
           sigs == handlers[h].sigs
       IN  IF i > Len(sigs)
           THEN \* finally: self.__noti_lock.release()
                /\ noti_lock' = FinallyRelease(noti_lock)
                /\ handlers' = [ handlers EXCEPT ![h] = IdleHandler ]
                /\ UNCHANGED << last_notifications, notiObs >>
           ELSE IF InWindow(sigs[i], last_notifications)
           THEN \* continue
                /\ handlers' = [ handlers EXCEPT ![h].i = i + 1 ]
                /\ UNCHANGED << noti_lock, last_notifications, notiObs >>
           ELSE /\ last_notifications' = WindowAppend(last_notifications, sigs[i])
                /\ IF noti_callback = None \/ ~ Dispatches(DecodeSignal(sigs[i]))
                   THEN \* TypeError, caught: log and go on with the next frame
                        /\ handlers' = [ handlers EXCEPT ![h].i = i + 1 ]
                        /\ UNCHANGED notiObs
                   ELSE /\ handlers' = [ handlers EXCEPT ![h].pc = "cb_s",
                                                          ![h].cb = noti_callback ]
                        /\ RecordCall(noti_callback, DecodeSignal(sigs[i]),
                                      handlers[h].data)
                /\ UNCHANGED noti_lock
    /\ UNCHANGED << bridgeCfg, bridgeConn, noti_callback, bridgeSend, conns,
                    connTasks, senders, dc_calls, arrived, sendObs,
                    periodic, codec, call_args >>

\* the awaited notification callback returns
CallbackReturns(h) ==
    /\ Running
    /\ handlers[h].pc \in { "cb_s", "cb_u" }
    /\ handlers' = [ handlers EXCEPT ![h] =
                        IF handlers[h].pc = "cb_u" THEN IdleHandler
                        ELSE [ handlers[h] EXCEPT !.pc = "next", !.i = @ + 1 ] ]
    /\ UNCHANGED << bridgeCfg, bridgeConn, bridgeNoti, bridgeSend, conns, connTasks,
                    senders, dc_calls, notiObs, arrived, sendObs,
                    periodic, codec, call_args >>

HandlerStep ==
    \E h \in Handlers :
        \/ HandlerRun(h)
        \/ HandlerAcquire(h)
        \/ HandlerNext(h)
        \/ CallbackReturns(h)

(***************************************************************************)
(* Outbound path: send_signal and send_bytes.                              *)
(*                                                                         *)
(* A call is at  "acquire" (waiting in self.__send_lock.acquire()),        *)
(* "locked" (it holds the lock: the code from acquire() to release()),     *)
(* "write" (in the loop of send_bytes: suspended in write_gatt_char or in  *)
(* the sleep that follows a write) or "done" (returned).  asyncio runs the *)
(* code between acquire() and release() without interruption; the model    *)
(* lets other tasks run there, which only adds interleavings.              *)
(***************************************************************************)
\* random.randrange(a, b): an integer from a to b - 1
randrange(a, b) == a .. (b - 1)

\* the values of random.randrange(0, 255) the model draws: the ends of the range
RandomSample == { r \in randrange(0, 255) : r = 0 \/ r = 254 }

IdleSender ==
    [ pc |-> "idle", header |-> MSG_DEFAULT_HEADER, stone |-> STONE_BRIDGE,
      status |-> 0, color |-> 0, random_id |-> FALSE, resends |-> 0,
      reserved |-> 0, rand |-> 0, message_id |-> NoneInt, frame |-> <<>>,
      writes |-> 0, err |-> FALSE ]

\* the send_periodic call.  pc: "idle", "head" (at the top of the loop body),
\* "sleep" (in asyncio.sleep(gap)), "send" (awaiting send_signal) or "done";
\* i: the loop variable; calls: the send_signal calls made, in order (they share
\* the error_event of the batch); sleeps: the gaps slept
IdlePeriodic ==
    [ pc |-> "idle", count |-> 0, gap |-> 0, resends |-> 0, stop_on_failure |-> FALSE,
      i |-> 0, calls |-> <<>>, sleeps |-> 0 ]

\* a variant of NextId that does not wrap
NextId_NoWrap(id) == id + 1

\* self.__next_send_id = (self.__next_send_id + 1) % 256
NextId(id) == (id + 1) % IdModulus

\* the id a call gets: random.randrange(0, 255) or the counter
ChooseId(random_id, rand, counter) == IF random_id THEN rand ELSE counter

\* a variant of SignalBytes whose checksum is the plain sum
SignalBytes_NoWrap(header, stone, status, reserved, message_id, color_channel) ==
    LET checksum == header + stone + status + reserved + message_id
    IN  << header, stone, status, reserved, message_id, checksum, color_channel >>

\* bytes([header, stone, status, reserved, message_id, checksum, color_channel])
SignalBytes(header, stone, status, reserved, message_id, color_channel) ==
    LET checksum == (header + stone + status + reserved + message_id) % 256
    IN  << header, stone, status, reserved, message_id, checksum, color_channel >>

\* the start of send_signal with call record  call : reserved is drawn, then the
\* call waits for the lock
EnterSendSignalWith(t, call) ==
    /\ senders[t].pc = "idle"
    /\ \A u \in Senders : u < t => senders[u].pc # "idle"
    /\ senders' = [ senders EXCEPT ![t] = call ]
    /\ send_lock' = [ send_lock EXCEPT !.waiters = Append(@, t) ]

\* send_signal called with header and stone at their defaults
EnterSendSignal(t, status, color_channel, resends, random_id, reserved, rand) ==
    EnterSendSignalWith(t,
        [ IdleSender EXCEPT !.pc = "acquire", !.status = status,
                            !.color = color_channel, !.resends = resends,
                            !.random_id = random_id,
                            !.reserved = reserved, !.rand = rand ])

\* send_signal is called by the caller
SendSignalCall(t, status, color_channel, resends, random_id, reserved, rand) ==
    /\ Running
    /\ EnterSendSignal(t, status, color_channel, resends, random_id, reserved, rand)
    /\ UNCHANGED << bridgeCfg, bridgeConn, bridgeNoti, next_send_id, conns, connTasks,
                    handlers, dc_calls, notiObs, arrived, sendObs,
                    periodic, codec, call_args >>

\* await self.__send_lock.acquire() returns
SendLockAcquire(t) ==
    /\ Running
    /\ senders[t].pc = "acquire"
    /\ send_lock.holder = 0
    /\ Head(send_lock.waiters) = t
    /\ send_lock' = [ holder |-> t, waiters |-> Tail(send_lock.waiters) ]
    /\ senders' = [ senders EXCEPT ![t].pc = "locked" ]
    /\ UNCHANGED << bridgeCfg, bridgeConn, bridgeNoti, next_send_id, conns, connTasks,
                    handlers, dc_calls, notiObs, arrived, sendObs,
                    periodic, codec, call_args >>

\* a variant of Released that keeps the lock across send_bytes
Released_Kept(lock) == lock

\* self.__send_lock.release()
Released(lock) == [ lock EXCEPT !.holder = 0 ]

\* message_id is chosen, the counter incremented, the lock released and the
\* frame built; send_bytes starts
SendTakeId(t) ==
    /\ Running
    /\ senders[t].pc = "locked"
    /\ send_lock.holder = t
    /\ LET message_id == ChooseId(senders[t].random_id, senders[t].rand, next_send_id)
       IN  senders' = [ senders EXCEPT
                          ![t].pc = "write",
                          ![t].message_id = message_id,
                          ![t].frame = SignalBytes(senders[t].header, senders[t].stone,
                                                   senders[t].status, senders[t].reserved,
                                                   message_id, senders[t].color) ]
    /\ next_send_id' = NextId(next_send_id)
    /\ send_lock' = Released(send_lock)
    /\ UNCHANGED << bridgeCfg, bridgeConn, bridgeNoti, conns, connTasks, handlers,
                    dc_calls, notiObs, arrived, sendObs,
                    periodic, codec, call_args >>

\* a variant of CanWrite in which every write succeeds
CanWrite_Always == TRUE

\* self.client is a BleakClient that is connected
LinkUp == client # 0 /\ conns[client].state = "connected"

\* can self.client.write_gatt_char succeed
CanWrite == LinkUp

\* a variant of WriteFailed that does not set error_event
WriteFailed_Silent(sender) == [ sender EXCEPT !.pc = "done" ]

\* the except clauses of send_bytes: error_event.set(), log, return
WriteFailed(sender) == [ sender EXCEPT !.pc = "done", !.err = TRUE ]

\* a variant of LoopDone that makes one more iteration
LoopDone_OneMore(writes, resends) == writes > resends

\* "for _ in range(resends)" is exhausted after  writes  iterations
LoopDone(writes, resends) == writes >= resends

\* one iteration of  for _ in range(resends) : the write and the sleep after it,
\* or the end of the loop.  A failed write (AttributeError when client is None,
\* BleakError when the link is down) sets error_event and ends the call.
SendWrite(t) ==
    /\ Running
    /\ senders[t].pc = "write"
    /\ IF LoopDone(senders[t].writes, senders[t].resends)
       THEN /\ senders' = [ senders EXCEPT ![t].pc = "done" ]
            /\ UNCHANGED wire
       ELSE IF CanWrite
       THEN /\ senders' = [ senders EXCEPT ![t].writes = @ + 1 ]
            /\ wire' = BagAdd(wire, senders[t].frame)
       ELSE /\ senders' = [ senders EXCEPT ![t] = WriteFailed(senders[t]) ]
            /\ UNCHANGED wire
    /\ UNCHANGED << bridgeCfg, bridgeConn, bridgeNoti, bridgeSend, conns, connTasks,
                    handlers, dc_calls, notiObs, arrived, id_start, periodic, codec, call_args >>

\* --------------------------------------------------------- send_periodic
\* error_event.is_set(): the event is passed to every send_signal of the batch
\* and set by the send_bytes of a call whose write failed
BatchFailed ==
    \E j \in 1 .. Len(periodic.calls) : senders[periodic.calls[j]].err

\* the caller calls send_periodic(status, color_channel, count, gap, resends,
\* stop_on_failure=stop_on_failure): error_event = asyncio.Event()
PeriodicCall(count, gap, resends, stop_on_failure) ==
    /\ Running
    /\ periodic.pc = "idle"
    /\ periodic' = [ IdlePeriodic EXCEPT !.pc = "head", !.count = count, !.gap = gap,
                                         !.resends = resends,
                                         !.stop_on_failure = stop_on_failure ]
    /\ UNCHANGED << bridgeCfg, bridgeConn, bridgeNoti, bridgeSend, conns, connTasks,
                    handlers, senders, dc_calls, notiObs, arrived, sendObs, codec, call_args >>

\* a variant of StopNow that stops after a failure whatever stop_on_failure is
StopNow_AnyFailure(stop_on_failure, is_set) == is_set

\* a variant of StopNow that never stops
StopNow_Never(stop_on_failure, is_set) == FALSE

\* "if stop_on_failure and error_event.is_set()"
StopNow(stop_on_failure, is_set) == stop_on_failure /\ is_set

\* "await self.send_signal(status, color_channel, resends=resends, ...,
\* error_event=error_event)": random_id keeps its default
PeriodicSend ==
    /\ \E t \in Senders, reserved \in RandomSample :
          /\ EnterSendSignal(t, 0, 1, periodic.resends, FALSE, reserved, 0)
          /\ periodic' = [ periodic EXCEPT !.pc = "send", !.calls = Append(@, t) ]
    /\ UNCHANGED << bridgeCfg, bridgeConn, bridgeNoti, next_send_id, conns, connTasks,
                    handlers, dc_calls, notiObs, arrived, sendObs, codec, call_args >>

\* the top of the loop body: the end of range(count), the return after a
\* failure, the sleep between two sends, or the next send
PeriodicHead ==
    /\ Running
    /\ periodic.pc = "head"
    /\ IF periodic.i >= periodic.count \/ StopNow(periodic.stop_on_failure, BatchFailed)
       THEN /\ periodic' = [ periodic EXCEPT !.pc = "done" ]
            /\ UNCHANGED << bridgeCfg, bridgeConn, bridgeNoti, bridgeSend, conns,
                            connTasks, handlers, senders, dc_calls, notiObs, arrived,
                            sendObs, codec, call_args >>
       ELSE IF periodic.gap > 0 /\ periodic.i > 0
       THEN /\ periodic' = [ periodic EXCEPT !.pc = "sleep", !.sleeps = @ + 1 ]
            /\ UNCHANGED << bridgeCfg, bridgeConn, bridgeNoti, bridgeSend, conns,
                            connTasks, handlers, senders, dc_calls, notiObs, arrived,
                            sendObs, codec, call_args >>
       ELSE PeriodicSend

\* asyncio.sleep(gap) returns: the send follows
PeriodicWake ==
    /\ Running
    /\ periodic.pc = "sleep"
    /\ PeriodicSend

\* send_signal returns: the next iteration
PeriodicSent ==
    /\ Running
    /\ periodic.pc = "send"
    /\ senders[periodic.calls[Len(periodic.calls)]].pc = "done"
    /\ periodic' = [ periodic EXCEPT !.pc = "head", !.i = @ + 1 ]
    /\ UNCHANGED << bridgeCfg, bridgeConn, bridgeNoti, bridgeSend, conns, connTasks,
                    handlers, senders, dc_calls, notiObs, arrived, sendObs, codec, call_args >>

SenderStep ==
    \E t \in Senders :
        \/ \E resends \in { 0, MaxResends }, random_id \in BOOLEAN :
              \E r \in IF random_id THEN RandomSample ELSE { 0 } :
                  SendSignalCall(t, 0, 1, resends, random_id, IdModulus - 2, r)
        \/ SendLockAcquire(t)
        \/ SendTakeId(t)
        \/ SendWrite(t)

(***************************************************************************)
(* The inbound stream used to exercise the handler.  The device produces   *)
(* the frames InFrame(1), InFrame(2), ... (they differ in the message ID), *)
(* each for the first time in this order, and may repeat any frame it has  *)
(* produced (a retransmission).                                            *)
(***************************************************************************)
\* copies of the very first frame that may arrive before the second frame
MaxCopies == 13
\* copies that may arrive after their frame has left the window
MaxLate == 1

\* how many frames back a retransmitted frame lies: the newest frame, the oldest
\* frame a full window still holds, and the newest frame it no longer holds
CopyAges == { 0, WindowSize - 1, WindowSize }

\* the k-th frame of the device, with a correct inbound checksum
InFrame(k) ==
    add_checksum(<< MSG_DEFAULT_HEADER, STONE_BRIDGE, 0, 0, (250 + k) % 256, 0, 1 >>, TRUE)

\* a payload in which the regular expression finds nothing
Noise == << 1, 19, 3 >>

\* noise: payloads that arrived from the mixed stream (see ScanPayloads)
NoArrivals == [ fresh |-> 0, copies |-> 0, late |-> 0, noise |-> 0 ]

\* a frame arrives for the first time
ArriveFresh(c) ==
    /\ arrived.fresh < NumFrames
    /\ SpawnHandler(InFrame(arrived.fresh + 1), c)
    /\ arrived' = [ arrived EXCEPT !.fresh = @ + 1,
                                   !.copies = IF arrived.fresh = 0 THEN 1 ELSE @ ]

\* the frame that arrived first  age  frames ago arrives again; the copy is late
\* when WindowSize or more other frames arrived for the first time after it
ArriveCopy(c, age) ==
    /\ arrived.fresh - age >= 1
    /\ arrived.fresh = 1 => arrived.copies < MaxCopies
    /\ age >= WindowSize => arrived.late < MaxLate
    /\ SpawnHandler(InFrame(arrived.fresh - age), c)
    /\ arrived' = [ arrived EXCEPT
                      !.copies = IF arrived.fresh = 1 THEN @ + 1 ELSE @,
                      !.late = IF age >= WindowSize THEN @ + 1 ELSE @ ]

\* two new frames back-to-back in one payload
ArrivePair(c) ==
    /\ arrived.fresh + 2 <= NumFrames
    /\ SpawnHandler(InFrame(arrived.fresh + 1) \o InFrame(arrived.fresh + 2), c)
    /\ arrived' = [ arrived EXCEPT !.fresh = @ + 2,
                                   !.copies = IF arrived.fresh = 0 THEN 1 ELSE @ ]

\* a payload without a frame
ArriveNoise(c) ==
    /\ arrived.noise < 1
    /\ SpawnHandler(Noise, c)
    /\ arrived' = [ arrived EXCEPT !.noise = @ + 1 ]

\* the transport delivers the notifications of a client that is connected and
\* subscribed
Subscribed(c) ==
    /\ conns[c].state = "connected"
    /\ conns[c].notifying

NotificationArrives ==
    /\ Running
    /\ \E c \in Clients :
          /\ Subscribed(c)
          /\ \/ ArriveFresh(c)
             \/ \E age \in CopyAges : ArriveCopy(c, age)
             \/ ArrivePair(c)
    /\ UNCHANGED << bridgeCfg, bridgeConn, bridgeNoti, bridgeSend, conns, connTasks,
                    senders, dc_calls, notiObs, sendObs,
                    periodic, codec, call_args >>

(***************************************************************************)
(* Connection life cycle: connect, disconnect, __disconnect_callback,      *)
(* __reconnect, notification_enable and notification_disable.              *)
(*                                                                         *)
(* The caller is sequential: it awaits one operation before it calls the   *)
(* next.  Activation 0 of connect() is the caller's; activation c is the   *)
(* one inside the __reconnect task that was created when client c was      *)
(* disconnected (a client is disconnected once, so there is at most one    *)
(* such task per client).                                                  *)
(***************************************************************************)
Activations == 0 .. MaxClients

\* the callbacks the caller passes
DcCallbacks == { None, "dcA" }
NotiCallbacks == { "cbA" }

\* d: the caller's latest disconnect() call: its number n, the client it closes,
\* its arguments, whether that client was connected and a disconnect callback
\* was set when it was called, and its return value
NoDisconnect ==
    [ n |-> 0, c |-> 0, usr |-> FALSE, on_timeout |-> FALSE, was_conn |-> FALSE,
      had_cb |-> FALSE, result |-> "none" ]

\* the operations that return at once, with the log "BleakClient Object was not
\* initialized. Please connect to a bridge first.", when self.client is None
NoClientOps ==
    { "notification_enable", "notification_disable", "request_bridge_info",
      "request_battery" }

\* those of them that read a characteristic
RequestOps == { "request_bridge_info", "request_battery" }

\* per operation: what its latest call that found self.client None returned
NoReturns == [ o \in NoClientOps |-> "none" ]

\* the value returned from the "except AttributeError" clause of operation o
NoClientReturn(o) == IF o \in RequestOps THEN "None" ELSE "False"

\* op: the operation in flight; cb: the argument of notification_enable in
\* flight; disabled: notification_disable() returned True and
\* notification_enable was not called since; ret: see NoReturns
IdleUser ==
    [ op |-> "idle", cb |-> None, disabled |-> FALSE, d |-> NoDisconnect,
      ret |-> NoReturns ]

\* pc: "idle", "scan" (awaiting BleakScanner), "connecting" (awaiting
\* client.connect), "info" (awaiting request_bridge_info); c: the client created
IdleFrame == [ pc |-> "idle", c |-> 0 ]

\* pc: "idle", "ready" (task created), "connect" (in wait_for(self.connect)),
\* "after" (connect returned), "enable" (awaiting notification_enable), "done";
\* result: what connect returned, "raised" or "timeout"; enabled: "none",
\* "skipped", "refused" or "ok"; ncb: the argument of the notification_enable in
\* progress; dc0, ncb0: the callbacks that were set when the task was created;
\* up: connect returned True and the link was up when it did
IdleReconn ==
    [ pc |-> "idle", result |-> "none", enabled |-> "none", ncb |-> None,
      dc0 |-> None, ncb0 |-> None, up |-> FALSE ]

\* pc: "idle" or "decide" (the callback was invoked, the reconnect decision is
\* next); c: the client that was disconnected
IdleDcb == [ pc |-> "idle", c |-> 0 ]

\* what no life-cycle action changes
dataWork == << noti_lock, send_lock, next_send_id, last_notifications, handlers,
               senders, noti_count, noti_last, delivered, arrived, wire, id_start,
               periodic, codec >>

dataPath == << dataWork, call_args >>

\* BleakClient objects constructed so far
NumCreated == Cardinality({ c \in Clients : conns[c].state # "unborn" })

\* one invocation self.dc_callback(self, user_disconnected=ud, by_timeout=to); by:
\* "disconnect", "dcb" (__disconnect_callback) or "reconnect"; c: the client or
\* the reconnect task; n: the number of the disconnect() call
DcCall(cb, ud, to, by, c, n) ==
    [ cb |-> cb, ud |-> ud, to |-> to, by |-> by, c |-> c, n |-> n ]

\* "if self.dc_callback: self.dc_callback(...)"
InvokeDc(ud, to, by, c, n) ==
    dc_calls' = IF dc_callback # None
                THEN Append(dc_calls, DcCall(dc_callback, ud, to, by, c, n))
                ELSE dc_calls

\* ---------------------------------------------------------------- connect
\* the code of connect() before the scan
ConnectPrefix(w, dc, tr, rn) ==
    /\ try_reconnect' = tr
    /\ restart_notifications' = rn
    /\ dc_callback' = dc
    /\ cframe' = [ cframe EXCEPT ![w] = [ pc |-> "scan", c |-> 0 ] ]

\* connect() returns result (or raises) to the caller or to __reconnect
Returned(w, result) ==
    IF w = 0
    THEN /\ user' = [ user EXCEPT !.op = "idle" ]
         /\ UNCHANGED reconn
    ELSE /\ reconn' = [ reconn EXCEPT ![w].pc = IF result = "raised" THEN "done"
                                                 ELSE "after",
                                      ![w].result = result ]
         /\ UNCHANGED user

\* the scan and client.connect wait for the timeout of connect(); inside
\* __reconnect the wait_for around connect() expires first
OwnTimeoutFirst(w) == w = 0 \/ ConnectTimeout < ReconnectTimeout

\* the caller calls connect(dc_callback=dc, try_reconnect=tr, restart_notifications=rn)
ConnectCall(dc, tr, rn) ==
    /\ Running
    /\ user.op = "idle"
    /\ user' = [ user EXCEPT !.op = "connect" ]
    /\ ConnectPrefix(0, dc, tr, rn)
    /\ UNCHANGED << client, noti_callback, address, user_disconnected, conns, reconn,
                    dcb, dc_calls, dataPath >>

\* the scan finds the device: self.client = BleakClient(...), client.connect starts
ScanFinds(w) ==
    /\ Running
    /\ cframe[w].pc = "scan"
    /\ NumCreated < MaxClients
    /\ LET c == NumCreated + 1
       IN  /\ client' = c
           /\ conns' = [ conns EXCEPT ![c].state = "created", ![c].by = w ]
           /\ cframe' = [ cframe EXCEPT ![w] = [ pc |-> "connecting", c |-> c ] ]
    /\ UNCHANGED << bridgeCfg, noti_callback, address, user_disconnected, user, reconn,
                    dcb, dc_calls, dataPath >>

\* the scan ends without a device: return False
ScanFails(w) ==
    /\ Running
    /\ cframe[w].pc = "scan"
    /\ OwnTimeoutFirst(w)
    /\ cframe' = [ cframe EXCEPT ![w] = IdleFrame ]
    /\ Returned(w, "False")
    /\ UNCHANGED << bridgeCfg, bridgeConn, noti_callback, conns, dcb, dc_calls,
                    dataPath >>

\* a variant of FlagOnConnect that keeps the flag
FlagOnConnect_Kept(flag) == flag

\* "self.__user_disconnected = False" once client.connect has returned
FlagOnConnect(flag) == FALSE

\* client.connect succeeds; request_bridge_info starts
ClientConnects(w) ==
    /\ Running
    /\ cframe[w].pc = "connecting"
    /\ conns' = [ conns EXCEPT ![cframe[w].c].state = "connected" ]
    /\ user_disconnected' = FlagOnConnect(user_disconnected)
    /\ address' = "addr"
    /\ cframe' = [ cframe EXCEPT ![w].pc = "info" ]
    /\ UNCHANGED << bridgeCfg, client, noti_callback, user, reconn, dcb, dc_calls,
                    dataPath >>

\* client.connect raises: TimeoutError (return None), BleakDeviceNotFoundError
\* (return False) or another exception, which connect() does not catch
ClientConnectFails(w, how) ==
    /\ Running
    /\ cframe[w].pc = "connecting"
    /\ how \in { "None", "False", "raised" }
    /\ how = "None" => OwnTimeoutFirst(w)
    /\ cframe' = [ cframe EXCEPT ![w] = IdleFrame ]
    /\ Returned(w, how)
    /\ UNCHANGED << bridgeCfg, bridgeConn, noti_callback, conns, dcb, dc_calls,
                    dataPath >>

\* request_bridge_info returns (it catches its own errors): return True
InfoReturns(w) ==
    /\ Running
    /\ cframe[w].pc = "info"
    /\ cframe' = [ cframe EXCEPT ![w] = IdleFrame ]
    /\ Returned(w, "True")
    /\ UNCHANGED << bridgeCfg, bridgeConn, noti_callback, conns, dcb, dc_calls,
                    dataPath >>

\* ------------------------------------------------------------- disconnect
\* "if _user: self.__user_disconnected = True"; a variant that never sets the flag
UserFlag_NeverSet(usr, flag) == flag

UserFlag(usr, flag) == IF usr THEN TRUE ELSE flag

\* "if dc_callback_on_timeout and self.dc_callback"; a variant that ignores the
\* argument
TimeoutCallback_Always(on_timeout, cb) == cb # None

TimeoutCallback(on_timeout, cb) == on_timeout /\ cb # None

\* the caller calls disconnect(dc_callback_on_timeout=on_timeout, _user=usr).
\* Without a BleakClient the callback is invoked and False returned at once (the
\* arguments are not read: the defaults stand for all values); otherwise
\* client.disconnect() starts under shield and wait_for
DisconnectCall(on_timeout, usr) ==
    /\ Running
    /\ user.op = "idle"
    /\ user.d.n < MaxDisconnects
    /\ client = 0 => usr /\ ~ on_timeout
    /\ LET d == [ n |-> user.d.n + 1, c |-> client, usr |-> usr,
                  on_timeout |-> on_timeout, was_conn |-> LinkUp,
                  had_cb |-> dc_callback # None, result |-> "none" ]
       IN  IF client = 0
           THEN /\ InvokeDc(TRUE, FALSE, "disconnect", 0, d.n)
                /\ user' = [ user EXCEPT !.d = [ d EXCEPT !.result = "False" ] ]
                /\ UNCHANGED << user_disconnected, conns >>
           ELSE /\ user_disconnected' = UserFlag(usr, user_disconnected)
                /\ conns' = [ conns EXCEPT ![client].closing = TRUE,
                                           ![client].user_req = @ \/ (usr /\ LinkUp) ]
                /\ user' = [ user EXCEPT !.op = "disconnect", !.d = d ]
                /\ UNCHANGED dc_calls
    /\ UNCHANGED << bridgeCfg, client, noti_callback, address, cframe, reconn, dcb,
                    dataPath >>

\* wait_for expires before client.disconnect() has finished: the shielded
\* disconnect goes on, the callback is invoked if asked for, return False
DisconnectTimeout ==
    /\ Running
    /\ user.op = "disconnect"
    /\ conns[user.d.c].closing
    /\ IF TimeoutCallback(user.d.on_timeout, dc_callback)
       THEN InvokeDc(TRUE, TRUE, "disconnect", user.d.c, user.d.n)
       ELSE UNCHANGED dc_calls
    /\ user' = [ user EXCEPT !.op = "idle", !.d.result = "False" ]
    /\ UNCHANGED << bridgeCfg, bridgeConn, noti_callback, conns, cframe, reconn, dcb,
                    dataPath >>

\* client.disconnect() has finished in time: return True
DisconnectReturns ==
    /\ Running
    /\ user.op = "disconnect"
    /\ ~ conns[user.d.c].closing
    /\ user' = [ user EXCEPT !.op = "idle", !.d.result = "True" ]
    /\ UNCHANGED << bridgeCfg, bridgeConn, noti_callback, conns, cframe, reconn, dcb,
                    dc_calls, dataPath >>

\* -------------------------------------------------- __disconnect_callback
\* first half of __disconnect_callback(client): the disconnect callback
DisconnectedCallback(c) ==
    /\ InvokeDc(user_disconnected, FALSE, "dcb", c, 0)
    /\ dcb' = [ pc |-> "decide", c |-> c ]

\* client.disconnect() finishes; bleak calls disconnected_callback when the
\* client was connected
CloseCompletes(c) ==
    /\ Running
    /\ conns[c].closing
    /\ IF conns[c].state = "connected"
       THEN /\ conns' = [ conns EXCEPT ![c].state = "closed", ![c].closing = FALSE,
                                       ![c].notifying = FALSE ]
            /\ DisconnectedCallback(c)
       ELSE /\ conns' = [ conns EXCEPT ![c].closing = FALSE ]
            /\ UNCHANGED << dc_calls, dcb >>
    /\ UNCHANGED << bridgeCfg, bridgeConn, noti_callback, user, cframe, reconn,
                    dataPath >>

\* the link of a connected client breaks; bleak calls disconnected_callback
ConnectionLost(c) ==
    /\ Running
    /\ conns[c].state = "connected"
    /\ ~ conns[c].closing
    /\ conns' = [ conns EXCEPT ![c].state = "closed", ![c].notifying = FALSE ]
    /\ DisconnectedCallback(c)
    /\ UNCHANGED << bridgeCfg, bridgeConn, noti_callback, user, cframe, reconn,
                    dataPath >>

\* "if (not self.__user_disconnected) and self.try_reconnect"; variants that
\* ignore one of the two flags
ShouldReconnect_AnyCause(user_disc, try_rec) == try_rec

ShouldReconnect_AnyConfig(user_disc, try_rec) == ~ user_disc

ShouldReconnect(user_disc, try_rec) == (~ user_disc) /\ try_rec

\* second half of __disconnect_callback: create_task(self.__reconnect(address))
ReconnectDecision ==
    /\ dcb.pc = "decide"
    /\ reconn' = IF ShouldReconnect(user_disconnected, try_reconnect)
                 THEN [ reconn EXCEPT ![dcb.c] =
                          [ IdleReconn EXCEPT !.pc = "ready", !.dc0 = dc_callback,
                                              !.ncb0 = noti_callback ] ]
                 ELSE reconn
    /\ dcb' = IdleDcb
    /\ UNCHANGED << bridgeCfg, bridgeConn, noti_callback, conns, user, cframe,
                    dc_calls, dataPath >>

\* ------------------------------------------------------------ __reconnect
\* the task starts: self.connect(address, by_name=False, try_reconnect=True),
\* whose other arguments take their defaults
ReconnectStart(r) ==
    /\ Running
    /\ reconn[r].pc = "ready"
    /\ reconn' = [ reconn EXCEPT ![r].pc = "connect" ]
    /\ ConnectPrefix(r, None, TRUE, TRUE)
    /\ UNCHANGED << client, noti_callback, address, user_disconnected, conns, user,
                    dcb, dc_calls, dataPath >>

\* wait_for expires and cancels connect().  In the scan and in
\* request_bridge_info the CancelledError ends connect() and wait_for raises
\* TimeoutError; in client.connect it is caught and connect() returns False
ReconnectExpires(r) ==
    /\ Running
    /\ reconn[r].pc = "connect"
    /\ cframe[r].pc # "idle"
    /\ cframe' = [ cframe EXCEPT ![r] = IdleFrame ]
    /\ IF cframe[r].pc = "connecting"
       THEN /\ reconn' = [ reconn EXCEPT ![r].pc = "after", ![r].result = "False" ]
            /\ UNCHANGED dc_calls
       ELSE /\ reconn' = [ reconn EXCEPT ![r].pc = "done", ![r].result = "timeout" ]
            /\ InvokeDc(FALSE, TRUE, "reconnect", r, 0)
    /\ UNCHANGED << bridgeCfg, bridgeConn, noti_callback, conns, user, dcb, dataPath >>

\* "if self.restart_notifications and self.noti_callback"; a variant that never
\* restarts
RestartWanted_Never(restart, cb) == FALSE

RestartWanted(restart, cb) == restart /\ cb # None

\* after "Reconnected to Bridge": notification_enable(self.noti_callback) is
\* called when wanted; start_notify subscribes, or raises and False is returned
ReconnectAfter(r) ==
    /\ Running
    /\ reconn[r].pc = "after"
    /\ IF RestartWanted(restart_notifications, noti_callback)
       THEN \E ok \in BOOLEAN :
               /\ ok => LinkUp
               /\ IF ok
                  THEN /\ conns' = [ conns EXCEPT ![client].notifying = TRUE ]
                       /\ reconn' = [ reconn EXCEPT ![r].pc = "enable",
                                                    ![r].ncb = noti_callback,
                                                    ![r].up = TRUE ]
                  ELSE /\ reconn' = [ reconn EXCEPT
                                        ![r].pc = "done",
                                        ![r].enabled = "refused",
                                        ![r].up = LinkUp /\ reconn[r].result = "True" ]
                       /\ UNCHANGED conns
       ELSE /\ reconn' = [ reconn EXCEPT ![r].pc = "done", ![r].enabled = "skipped",
                                         ![r].up = LinkUp /\ reconn[r].result = "True" ]
            /\ UNCHANGED conns
    /\ UNCHANGED << bridgeCfg, bridgeConn, noti_callback, user, cframe, dcb, dc_calls,
                    dataPath >>

\* start_notify has returned: self.noti_callback = callback, the task ends
ReconnectEnabled(r) ==
    /\ Running
    /\ reconn[r].pc = "enable"
    /\ noti_callback' = reconn[r].ncb
    /\ reconn' = [ reconn EXCEPT ![r].pc = "done", ![r].enabled = "ok",
                                  ![r].ncb = None ]
    /\ UNCHANGED << bridgeCfg, bridgeConn, conns, user, cframe, dcb, dc_calls,
                    dataPath >>

\* --------------------------------- notification_enable, notification_disable
\* the caller calls notification_enable(cb): start_notify subscribes, or raises
\* (no client, no link, refused by the transport) and False is returned
EnterEnable(cb) ==
    /\ Running
    /\ user.op = "idle"
    /\ IF client = 0
       THEN \* AttributeError: return False
            /\ user' = [ user EXCEPT !.disabled = FALSE,
                                     !.ret.notification_enable =
                                         NoClientReturn("notification_enable") ]
            /\ UNCHANGED conns
       ELSE \E ok \in BOOLEAN :
               /\ ok => LinkUp
               /\ IF ok
                  THEN /\ conns' = [ conns EXCEPT ![client].notifying = TRUE ]
                       /\ user' = [ user EXCEPT !.op = "enable", !.cb = cb,
                                                !.disabled = FALSE ]
                  ELSE /\ user' = [ user EXCEPT !.disabled = FALSE ]
                       /\ UNCHANGED conns

EnableCall(cb) ==
    /\ EnterEnable(cb)
    /\ UNCHANGED << bridgeCfg, bridgeConn, noti_callback, cframe, reconn, dcb,
                    dc_calls, dataPath >>

\* a variant of Registered that keeps a callback that is already set
Registered_KeepFirst(old, callback) == IF old = None THEN callback ELSE old

\* "self.noti_callback = callback": the value of noti_callback afterwards
Registered(old, callback) == callback

\* start_notify has returned: self.noti_callback = callback, return True
EnableReturns ==
    /\ Running
    /\ user.op = "enable"
    /\ noti_callback' = Registered(noti_callback, user.cb)
    /\ user' = [ user EXCEPT !.op = "idle", !.cb = None ]
    /\ UNCHANGED << bridgeCfg, bridgeConn, conns, cframe, reconn, dcb, dc_calls,
                    dataPath >>

\* the caller calls notification_disable(): stop_notify unsubscribes and True is
\* returned, or it raises (no client, no link, nothing to stop) and False is
\* returned.  self.noti_callback stays as it is
DisableCall ==
    /\ Running
    /\ user.op = "idle"
    /\ IF client = 0
       THEN \* AttributeError: return False
            /\ user' = [ user EXCEPT !.ret.notification_disable =
                                         NoClientReturn("notification_disable") ]
            /\ UNCHANGED conns
       ELSE \E ok \in BOOLEAN :
               /\ ok => LinkUp
               /\ ~ ok => ~ (LinkUp /\ conns[client].notifying)
               /\ IF ok
                  THEN /\ conns' = [ conns EXCEPT ![client].notifying = FALSE ]
                       /\ user' = [ user EXCEPT !.disabled = TRUE ]
                  ELSE UNCHANGED << conns, user >>
    /\ UNCHANGED << bridgeCfg, bridgeConn, noti_callback, cframe, reconn, dcb,
                    dc_calls, dataPath >>

\* ------------------------------------- request_bridge_info, request_battery
\* the caller calls request_bridge_info() or request_battery(): without a client
\* __read_chraceristic returns None at once and so does the operation;
\* otherwise read_gatt_char is awaited
RequestCall(o) ==
    /\ Running
    /\ user.op = "idle"
    /\ o \in RequestOps
    /\ user' = IF client = 0
               THEN [ user EXCEPT !.ret[o] = NoClientReturn(o) ]
               ELSE [ user EXCEPT !.op = o ]
    /\ UNCHANGED << bridgeCfg, bridgeConn, noti_callback, conns, cframe, reconn, dcb,
                    dc_calls, dataPath >>

\* read_gatt_char returns the data or raises BleakError: the operation returns
\* the values read or None
RequestReturns ==
    /\ Running
    /\ user.op \in RequestOps
    /\ user' = [ user EXCEPT !.op = "idle" ]
    /\ UNCHANGED << bridgeCfg, bridgeConn, noti_callback, conns, cframe, reconn, dcb,
                    dc_calls, dataPath >>

\* ------------------------------------------------------------ environment
\* a subscribed client receives the next frame of the device
LifeNotification ==
    /\ Running
    /\ arrived.fresh < MaxNotifs
    /\ \E c \in Clients :
          /\ Subscribed(c)
          /\ SpawnHandler(InFrame(arrived.fresh + 1), c)
    /\ arrived' = [ arrived EXCEPT !.fresh = @ + 1 ]
    /\ UNCHANGED << bridgeCfg, bridgeConn, bridgeNoti, bridgeSend, conns, connTasks,
                    senders, dc_calls, notiObs, sendObs,
                    periodic, codec, call_args >>

\* the state in which the caller may call connect(): no client is connected or
\* closing, and no connect() or __reconnect is in progress
Disconnected ==
    /\ \A c \in Clients : conns[c].state # "connected" /\ ~ conns[c].closing
    /\ \A w \in Activations : cframe[w].pc = "idle"
    /\ \A r \in Clients : reconn[r].pc \in { "idle", "done" }

\* a caller that keeps to the contract calls connect() only then
CallerConnects(dc, tr, rn) ==
    /\ Disconnected
    /\ ConnectCall(dc, tr, rn)

\* a caller that connects a Bridge that has had no client yet
FirstConnect(dc, tr, rn) ==
    /\ client = 0
    /\ CallerConnects(dc, tr, rn)

\* a caller that uses notifications once the Bridge has a client
SubscriberEnables(cb) ==
    /\ client # 0
    /\ EnableCall(cb)

SubscriberDisables ==
    /\ client # 0
    /\ DisableCall

TasksInit ==
    /\ user = IdleUser
    /\ cframe = [ w \in Activations |-> IdleFrame ]
    /\ reconn = [ r \in Clients |-> IdleReconn ]
    /\ dcb = IdleDcb
    /\ handlers = [ h \in Handlers |-> IdleHandler ]
    /\ senders = [ t \in Senders |-> IdleSender ]
    /\ periodic = IdlePeriodic

ObsInit ==
    /\ dc_calls = <<>>
    /\ noti_count = 0
    /\ noti_last = [ cb |-> None, signal |-> <<>>, Data |-> <<>> ]
    /\ delivered = << >>
    /\ arrived = NoArrivals
    /\ wire = << >>
    /\ id_start = next_send_id
    /\ call_args = NoCall

\* a Bridge that has connected and enabled notifications with callback "cbA"
InitNoti ==
    /\ client = 1
    /\ dc_callback = None
    /\ try_reconnect = FALSE
    /\ restart_notifications = TRUE
    /\ noti_callback = "cbA"
    /\ noti_lock = FreeLock
    /\ send_lock = FreeLock
    /\ address = "addr"
    /\ next_send_id = 0
    /\ user_disconnected = FALSE
    /\ last_notifications = <<>>
    /\ conns = [ c \in Clients |->
                  IF c = 1 THEN LiveConn(TRUE) ELSE NoConn ]
    /\ TasksInit
    /\ ObsInit
    /\ codec = IdleCodec

NextNoti ==
    \/ NotificationArrives
    \/ HandlerStep

SpecNoti == InitNoti /\ [][NextNoti]_vars

Quiescent == \A h \in Handlers : handlers[h].pc = "free"

(***************************************************************************)
(* Claims about the inbound path, checked under SpecNoti.                  *)
(***************************************************************************)
\* how often the notification callback was invoked with the fields of InFrame(k)
DeliveredCount(k) ==
    IF InFrame(k) \in DOMAIN delivered THEN delivered[InFrame(k)] ELSE 0

\* invocations of the notification callback with structured fields
StructuredCalls ==
    LET RECURSIVE Sum(_)
        Sum(S) == IF S = {} THEN 0
                  ELSE LET e == CHOOSE e \in S : TRUE IN delivered[e] + Sum(S \ { e })
    IN  Sum(DOMAIN delivered)

\* the text of the frames InFrame(lo) .. InFrame(hi), oldest first
TextOfFrames(lo, hi) == [ j \in 1 .. (hi - lo + 1) |-> JoinHex(InFrame(lo + j - 1)) ]

\* C2: exactly-once delivery of retransmitted frames.  As long as no copy of a
\* frame arrived after 12 or more other frames had been accepted since its first
\* copy, no frame is delivered to the notification callback twice, a frame that
\* has not arrived is not delivered, and once every handler has finished the
\* callback has been invoked with structured fields exactly once per distinct
\* frame that arrived (received == count).
C2_ExactlyOnce ==
    arrived.late = 0 =>
        /\ \A k \in 1 .. NumFrames :
              /\ DeliveredCount(k) <= 1
              /\ k > arrived.fresh => DeliveredCount(k) = 0
        /\ Quiescent =>
              /\ \A k \in 1 .. arrived.fresh : DeliveredCount(k) = 1
              /\ StructuredCalls = arrived.fresh

\* C2 witness: 13 distinct frames arrived, the first of them 13 times, other
\* copies were 11 frames old at most, and each frame was delivered once.
C2_Witness ==
    /\ arrived.late = 0
    /\ arrived.fresh = WindowSize + 1
    /\ arrived.copies = MaxCopies
    /\ Quiescent
    /\ StructuredCalls = WindowSize + 1

\* C3: the duplicate filter.  (a) When only copies of one frame have arrived (13
\* of them in the witness), the frame was accepted exactly once, the first time:
\* the callback got it once and the window holds it once.  (b) When n distinct
\* frames have arrived (13 in the claim) and none was re-accepted, all n were
\* accepted and the window holds exactly the most recent 12 of them in arrival
\* order.
C3_DuplicateFilter ==
    Quiescent /\ arrived.late = 0 /\ arrived.fresh >= 1 =>
        /\ arrived.fresh = 1 =>
              /\ DeliveredCount(1) = 1
              /\ StructuredCalls = 1
              /\ last_notifications = << JoinHex(InFrame(1)) >>
        /\ \A k \in 1 .. arrived.fresh : DeliveredCount(k) = 1
        /\ last_notifications =
              IF arrived.fresh <= WindowSize THEN TextOfFrames(1, arrived.fresh)
              ELSE TextOfFrames(arrived.fresh - WindowSize + 1, arrived.fresh)

\* C3 witness: 13 copies of the first frame, then 12 more distinct frames; the
\* window is full and no longer holds the first frame.
C3_Witness ==
    /\ Quiescent
    /\ arrived.late = 0
    /\ arrived.copies = 13
    /\ arrived.fresh = 13
    /\ Len(last_notifications) = 12
    /\ ~ InWindow(JoinHex(InFrame(1)), last_notifications)

\* the payload of handler h holds two frames back-to-back
PairPayload(h) == Len(handlers[h].data) = 2 * FrameLen

\* bytes 0..6 of the i-th frame of the payload of handler h
FrameOf(h, i) == SubSeq(handlers[h].data, FrameLen * (i - 1) + 1, FrameLen * i)

\* how often the notification callback was invoked with these fields
CallsWith(signal) == IF signal \in DOMAIN delivered THEN delivered[signal] ELSE 0

\* C20: two frames in one payload.  A raw notification payload that holds two
\* valid, distinct frames back-to-back makes the handler find both frames and
\* invoke the notification callback exactly twice, first for the first frame and
\* then for the second; each invocation carries Header, Stone, Status, Reserved,
\* Id, Checksum and Color equal to bytes 0..6 of its frame and Data equal to the
\* whole payload.
C20_PairInOrder ==
    \A h \in Handlers :
        PairPayload(h) /\ handlers[h].pc \in { "wait", "next", "cb_s" } =>
            LET t == handlers[h]
                first == t.pc = "cb_s" \/ (t.pc = "next" /\ t.i >= 2)
                second == (t.pc = "cb_s" /\ t.i = 2) \/ (t.pc = "next" /\ t.i = 3)
            IN  /\ Len(t.sigs) = 2
                /\ t.pc # "wait" => t.i \in 1 .. 3
                /\ t.pc = "cb_s" => t.i \in 1 .. 2
                /\ CallsWith(FrameOf(h, 1)) = IF first THEN 1 ELSE 0
                /\ CallsWith(FrameOf(h, 2)) = IF second THEN 1 ELSE 0
                /\ t.pc = "cb_s" =>
                      noti_last = [ cb |-> noti_callback, signal |-> FrameOf(h, t.i),
                                    Data |-> t.data ]

\* C20 witness: the callback is being invoked for the second frame of a payload
\* of two frames, after it was invoked for the first.
C20_Witness ==
    \E h \in Handlers :
        /\ PairPayload(h)
        /\ handlers[h].pc = "cb_s"
        /\ handlers[h].i = 2
        /\ FrameOf(h, 1) # FrameOf(h, 2)
        /\ noti_count = 2
        /\ noti_last.signal = FrameOf(h, 2)
        /\ noti_last.Data = FrameOf(h, 1) \o FrameOf(h, 2)

(***************************************************************************)
(* Senders on a connected Bridge.                                          *)
(***************************************************************************)
\* values of the counter before the first call
StartIds == { 0, IdModulus - 2 }

InitSend ==
    /\ client = 1
    /\ dc_callback = None
    /\ try_reconnect = FALSE
    /\ restart_notifications = TRUE
    /\ noti_callback = None
    /\ noti_lock = FreeLock
    /\ send_lock = FreeLock
    /\ address = "addr"
    /\ next_send_id \in StartIds
    /\ user_disconnected = FALSE
    /\ last_notifications = <<>>
    /\ conns = [ c \in Clients |->
                  IF c = 1 THEN LiveConn(FALSE) ELSE NoConn ]
    /\ TasksInit
    /\ ObsInit
    /\ codec = IdleCodec

NextSend ==
    \/ SenderStep

SpecSend == InitSend /\ [][NextSend]_vars

(***************************************************************************)
(* Claims about the outbound path, checked under SpecSend.                 *)
(***************************************************************************)
\* the send_signal calls made so far, and those that have got their message ID
Called == { t \in Senders : senders[t].pc # "idle" }
TookId == { t \in Senders : senders[t].pc \in { "write", "done" } }

\* C1: message-ID monotonicity.  While every send_signal call made so far has
\* random_id = False, the calls that have got their ID, N of them, hold pairwise
\* distinct IDs, these IDs are exactly id_start, id_start + 1, ...,
\* id_start + N - 1 modulo 256 (no repeat, no gap), where id_start is the counter
\* before the first call, and the counter is (id_start + N) mod 256; this in
\* every interleaving of the calls.
C1_ContiguousIds ==
    (\A t \in Called : ~ senders[t].random_id) =>
        /\ \A t, u \in TookId : t # u => senders[t].message_id # senders[u].message_id
        /\ { senders[t].message_id : t \in TookId }
              = { (id_start + j) % 256 : j \in 0 .. (Cardinality(TookId) - 1) }
        /\ \A t \in TookId : senders[t].frame[5] = senders[t].message_id
        /\ next_send_id = (id_start + Cardinality(TookId)) % 256

\* C1 witness: all calls are in flight at once with non-random IDs, the range
\* wraps from 255 to 0, and two calls are writing at the same time.
C1_Witness ==
    /\ Called = Senders
    /\ TookId = Senders
    /\ \A t \in Senders : ~ senders[t].random_id
    /\ \E t, u \in Senders :
          /\ senders[t].message_id = 255
          /\ senders[u].message_id = 0
          /\ senders[t].pc = "write" /\ senders[t].writes = 1
          /\ senders[u].pc = "write" /\ senders[u].writes = 1

(***************************************************************************)
(* The life cycle of one Bridge.  The caller calls connect() only while    *)
(* the Bridge is disconnected.                                             *)
(*                                                                         *)
(* Spec: a caller that connects and disconnects and does not use           *)
(* notifications (restart_notifications keeps its default).  SpecResub: a  *)
(* caller that connects a new Bridge without a disconnect callback,        *)
(* enables and disables notifications and never disconnects or connects    *)
(* again; the link breaks on its own and __reconnect brings it back.  A    *)
(* link breaks there while a BleakClient can still be created to replace   *)
(* it, so that every reconnect it starts may find the device or not.       *)
(***************************************************************************)
Init ==
    /\ BridgeInit
    /\ conns = [ c \in Clients |-> NoConn ]
    /\ TasksInit
    /\ ObsInit
    /\ codec = IdleCodec

CallerStep ==
    \/ \E dc \in DcCallbacks, tr \in BOOLEAN : CallerConnects(dc, tr, TRUE)
    \/ \E on_timeout \in BOOLEAN, usr \in BOOLEAN : DisconnectCall(on_timeout, usr)
    \/ DisconnectTimeout
    \/ DisconnectReturns

ConnectStep ==
    \E w \in Activations :
        \/ ScanFinds(w)
        \/ ScanFails(w)
        \/ ClientConnects(w)
        \/ \E how \in { "None", "False", "raised" } : ClientConnectFails(w, how)
        \/ InfoReturns(w)

TransportStep ==
    \E c \in Clients :
        \/ CloseCompletes(c)
        \/ ConnectionLost(c)

ReconnectStep ==
    \E r \in Clients :
        \/ ReconnectStart(r)
        \/ ReconnectExpires(r)
        \/ ReconnectAfter(r)

Next ==
    \/ CallerStep
    \/ ConnectStep
    \/ TransportStep
    \/ ReconnectDecision
    \/ ReconnectStep

Spec == Init /\ [][Next]_vars

SubscriberStep ==
    \/ \E tr \in BOOLEAN, rn \in BOOLEAN : FirstConnect(None, tr, rn)
    \/ \E cb \in NotiCallbacks : SubscriberEnables(cb)
    \/ EnableReturns
    \/ SubscriberDisables

ResubscribeStep ==
    \E r \in Clients :
        \/ ReconnectStart(r)
        \/ ReconnectExpires(r)
        \/ ReconnectAfter(r)
        \/ ReconnectEnabled(r)

\* the link of a client breaks while its reconnect can still find the device
LinkBreaks(c) ==
    /\ NumCreated < MaxClients
    /\ ConnectionLost(c)

NextResub ==
    \/ SubscriberStep
    \/ ConnectStep
    \/ \E c \in Clients : LinkBreaks(c)
    \/ ReconnectDecision
    \/ ResubscribeStep
    \/ LifeNotification
    \/ HandlerStep

SpecResub == Init /\ [][NextResub]_vars


(***************************************************************************)
(* Claims about disconnecting and reconnecting, checked under Spec.        *)
(***************************************************************************)
\* the invocations of the disconnect callback made by the caller's latest
\* disconnect() call itself, and those made by __disconnect_callback for the
\* client that call closes
EarlyCalls ==
    { i \in DOMAIN dc_calls : dc_calls[i].by = "disconnect" /\ dc_calls[i].n = user.d.n }
LateCalls ==
    { i \in DOMAIN dc_calls : dc_calls[i].by = "dcb" /\ dc_calls[i].c = user.d.c }

\* the caller's latest disconnect() call was made on a connected Bridge with a
\* disconnect callback set
OnConnected == user.d.n > 0 /\ user.d.was_conn /\ user.d.had_cb

\* C4: on a connected Bridge with a disconnect callback, one disconnect() call
\* leads to at most two invocations of the callback.  When the disconnect
\* finished in time (True returned) there is exactly one, made on completion.
\* When it timed out (False returned) the call itself made one invocation with
\* dc_callback_on_timeout=True and none with False; completion makes one more,
\* so the later invocation exists exactly when the underlying disconnect has
\* finished.
C4_CallbackCount ==
    OnConnected =>
        /\ Cardinality(EarlyCalls) + Cardinality(LateCalls) <= 2
        /\ Cardinality(LateCalls) = IF conns[user.d.c].state = "closed" THEN 1 ELSE 0
        /\ user.d.result = "none" => EarlyCalls = {}
        /\ user.d.result = "True" => EarlyCalls = {} /\ Cardinality(LateCalls) = 1
        /\ user.d.result = "False" =>
              Cardinality(EarlyCalls) = IF user.d.on_timeout THEN 1 ELSE 0

\* C4 witness: a disconnect with dc_callback_on_timeout=True timed out and
\* finished later: two invocations.
C4_Witness ==
    /\ OnConnected
    /\ user.d.result = "False"
    /\ user.d.on_timeout
    /\ Cardinality(EarlyCalls) = 1
    /\ Cardinality(LateCalls) = 1

\* C5: disconnect(dc_callback_on_timeout=True) with _user=True on a connected
\* Bridge with a disconnect callback, the underlying disconnect not finishing in
\* time: the call returns False, it has invoked the callback once with
\* (user_disconnected=True, by_timeout=True), the underlying disconnect is not
\* cancelled (it is still in progress until it finishes), and when it finishes
\* the callback is invoked once more, after the first invocation, with
\* (user_disconnected=True, by_timeout=False).
C5_TimeoutThenCompletion ==
    /\ \A i \in EarlyCalls : dc_calls[i].to => user.d.result = "False"
    /\ OnConnected /\ user.d.usr /\ user.d.on_timeout /\ user.d.result = "False" =>
          /\ \E e \in EarlyCalls :
                /\ EarlyCalls = { e }
                /\ dc_calls[e].ud /\ dc_calls[e].to
                /\ \A l \in LateCalls : l > e /\ dc_calls[l].ud /\ ~ dc_calls[l].to
          /\ Cardinality(LateCalls) <= 1
          /\ IF conns[user.d.c].state = "connected"
             THEN conns[user.d.c].closing /\ LateCalls = {}
             ELSE Cardinality(LateCalls) = 1

\* C5 witness: the timed-out disconnect has finished; the log ends with the two
\* invocations in this order.
C5_Witness ==
    /\ OnConnected /\ user.d.usr /\ user.d.on_timeout /\ user.d.result = "False"
    /\ conns[user.d.c].state = "closed"
    /\ Len(dc_calls) >= 2
    /\ dc_calls[Len(dc_calls) - 1].by = "disconnect"
    /\ dc_calls[Len(dc_calls) - 1].ud /\ dc_calls[Len(dc_calls) - 1].to
    /\ dc_calls[Len(dc_calls)].by = "dcb"
    /\ dc_calls[Len(dc_calls)].ud /\ ~ dc_calls[Len(dc_calls)].to

\* C6: disconnect() with _user=True on a connected Bridge that finishes in time
\* leads to exactly one invocation of the disconnect callback, with
\* (user_disconnected=True, by_timeout=False), and no reconnect task is ever
\* created for a client whose disconnection the caller asked for, whatever
\* try_reconnect is.
C6_UserDisconnect ==
    /\ OnConnected /\ user.d.usr /\ user.d.result = "True" =>
          /\ EarlyCalls = {}
          /\ \E l \in LateCalls :
                LateCalls = { l } /\ dc_calls[l].ud /\ ~ dc_calls[l].to
    /\ \A c \in Clients : conns[c].user_req => reconn[c].pc = "idle"

\* C6 witness: such a disconnect has returned True while try_reconnect is set.
C6_Witness ==
    /\ OnConnected /\ user.d.usr /\ user.d.result = "True"
    /\ try_reconnect
    /\ conns[user.d.c].state = "closed"
    /\ dcb.pc = "idle"
    /\ Cardinality(LateCalls) = 1

\* C7: when a connected client is disconnected without the caller having asked
\* for it with _user=True, __disconnect_callback first invokes the disconnect
\* callback (if one is set) with (user_disconnected=False, by_timeout=False) and
\* has not scheduled anything yet; then, with nothing in between, it creates
\* exactly one __reconnect task when try_reconnect is True and none when it is
\* False.
C7_UnexpectedLoss ==
    [][ \A c \in Clients :
          /\ ( /\ conns[c].state = "connected"
               /\ conns'[c].state = "closed"
               /\ ~ conns[c].user_req ) =>
                  /\ dc_calls' = IF dc_callback # None
                                 THEN Append(dc_calls,
                                        DcCall(dc_callback, FALSE, FALSE, "dcb", c, 0))
                                 ELSE dc_calls
                  /\ dcb' = [ pc |-> "decide", c |-> c ]
                  /\ reconn' = reconn
          /\ ( dcb.pc = "decide" /\ dcb.c = c /\ ~ conns[c].user_req ) =>
                  /\ dcb'.pc = "idle"
                  /\ dc_calls' = dc_calls
                  /\ reconn[c].pc = "idle"
                  /\ reconn'[c].pc = IF try_reconnect THEN "ready" ELSE "idle"
                  /\ \A r \in Clients \ { c } : reconn'[r] = reconn[r]
      ]_vars

\* C7 witness: the link broke with try_reconnect set; the callback was invoked
\* with (False, False) and the reconnect task has just been created.
C7_Witness ==
    \E c \in Clients :
        /\ reconn[c].pc = "ready"
        /\ ~ conns[c].user_req
        /\ dc_calls # <<>>
        /\ dc_calls[Len(dc_calls)] = DcCall("dcA", FALSE, FALSE, "dcb", c, 0)

\* the reconnect task r has ended and no client it created got connected
ReconnectFailed(r) ==
    /\ reconn[r].pc = "done"
    /\ reconn[r].result # "True"
    /\ \A c \in Clients : conns[c].by = r => conns[c].state = "created"

\* the invocations of the disconnect callback with (user_disconnected=False,
\* by_timeout=True) made by reconnect task r
FailureReports(r) ==
    { i \in DOMAIN dc_calls :
        /\ dc_calls[i].by = "reconnect" /\ dc_calls[i].c = r
        /\ ~ dc_calls[i].ud /\ dc_calls[i].to }

\* C8: a failed automatic reconnect is reported.  When a reconnect task has
\* ended without a connected client, the disconnect callback that was set when
\* the link broke has been invoked by that task exactly once with
\* (user_disconnected=False, by_timeout=True).
C8_ReconnectFailureReported ==
    \A r \in Clients :
        ReconnectFailed(r) /\ reconn[r].dc0 # None =>
            Cardinality(FailureReports(r)) = 1

(***************************************************************************)
(* Claims about notifications across a reconnect, checked under SpecResub. *)
(***************************************************************************)
\* handler h is in the notification callback for a payload that arrived on a
\* client created by a __reconnect task
AfterReconnect(h) ==
    /\ handlers[h].pc \in { "cb_s", "cb_u" }
    /\ conns[handlers[h].c].by # 0

\* C9: automatic re-subscribe.  When the connect() of a __reconnect task returned
\* True, the link is up and a notification callback was set when the link broke
\* (restart_notifications is True then, connect() in the task has set it), the
\* task has called start_notify on the new client without any call by the
\* caller; when the transport accepted it, the callback it registered is that
\* same callback, and a notification arriving on the new client is delivered to
\* that callback.
C9_Resubscribe ==
    /\ \A r \in Clients :
          ( /\ reconn[r].pc \in { "enable", "done" }
            /\ reconn[r].result = "True"
            /\ reconn[r].up
            /\ reconn[r].ncb0 # None ) =>
                /\ reconn[r].pc = "enable" \/ reconn[r].enabled \in { "ok", "refused" }
                /\ reconn[r].pc = "enable" => reconn[r].ncb = reconn[r].ncb0
                /\ reconn[r].pc = "enable" \/ reconn[r].enabled = "ok" =>
                      noti_callback = reconn[r].ncb0
    /\ \A h \in Handlers :
          AfterReconnect(h) /\ reconn[conns[handlers[h].c].by].ncb0 # None =>
              handlers[h].cb = reconn[conns[handlers[h].c].by].ncb0

\* C9 witness: the callback set before the link broke is being invoked for a
\* frame that arrived on the client of the reconnect, with no
\* notification_enable call by the caller in progress and none disabled.
C9_Witness ==
    \E h \in Handlers :
        /\ AfterReconnect(h)
        /\ handlers[h].pc = "cb_s"
        /\ ~ handlers[h].dis
        /\ handlers[h].cb = "cbA"
        /\ reconn[conns[handlers[h].c].by].enabled = "ok"
        /\ reconn[conns[handlers[h].c].by].ncb0 = "cbA"

\* C10: after notification_disable() has returned True, and until the caller
\* calls notification_enable again, the notification callback is not invoked
\* for a notification that arrives, also across an automatic reconnect.
C10_SilentAfterDisable ==
    \A h \in Handlers : handlers[h].pc \in { "cb_s", "cb_u" } => ~ handlers[h].dis

\* C12: the connect/disconnect cycle is repeatable.  Every client.connect that
\* succeeds, the first and every later one on the same Bridge, leaves the Bridge
\* connected (is_connected) with the user-disconnect flag reset, and connect()
\* then returns True with the Bridge connected unless the link broke meanwhile;
\* when a user-initiated disconnect() of a connected client returns True the
\* Bridge is not connected; and a connection loss (not a disconnect) is reported to the
\* disconnect callback with user_disconnected=False, also after an earlier
\* user-initiated disconnect.
C12_RepeatableCycle ==
    [][ /\ \A w \in Activations :
              /\ cframe[w].pc = "connecting" /\ cframe'[w].pc = "info" =>
                    /\ LinkUp'
                    /\ client' = cframe[w].c
                    /\ ~ user_disconnected'
              /\ cframe[w].pc = "info" /\ cframe'[w].pc = "idle"
                  /\ conns[cframe[w].c].state = "connected" => LinkUp'
        /\ user.op = "disconnect" /\ user'.op = "idle" /\ user'.d.result = "True"
            /\ user.d.usr /\ user.d.was_conn => ~ LinkUp'
        /\ \A c \in Clients :
              conns[c].state = "connected" /\ conns'[c].state = "closed"
              /\ ~ conns[c].closing /\ dc_callback # None =>
                  /\ Len(dc_calls') = Len(dc_calls) + 1
                  /\ dc_calls'[Len(dc_calls')] =
                        DcCall(dc_callback, FALSE, FALSE, "dcb", c, 0) ]_vars

\* C12 witness: the caller connected, disconnected (True was returned, the
\* callback got user_disconnected=True), connected the same Bridge again, and the
\* loss of the second connection was reported with user_disconnected=False.
C12_Witness ==
    /\ user.d.result = "True" /\ user.d.usr /\ user.d.was_conn /\ user.d.c = 1
    /\ conns[2].by = 0
    /\ conns[2].state = "closed"
    /\ Len(dc_calls) = 2
    /\ dc_calls[1] = DcCall("dcA", TRUE, FALSE, "dcb", 1, 0)
    /\ dc_calls[2] = DcCall("dcA", FALSE, FALSE, "dcb", 2, 0)

(***************************************************************************)
(* A caller that calls connect() whatever the state of the Bridge: the     *)
(* code of connect() has no test of the state it is called in.             *)
(***************************************************************************)
NextOverlap ==
    \/ \E dc \in DcCallbacks, tr \in BOOLEAN : ConnectCall(dc, tr, TRUE)
    \/ ConnectStep
    \/ \E c \in Clients : ConnectionLost(c)
    \/ ReconnectDecision
    \/ ReconnectStep

SpecOverlap == Init /\ [][NextOverlap]_vars

\* C11: connect is only permitted from the Disconnected state.  A connect call
\* issued while a client is connected, or while a connect or reconnect is in
\* flight, returns at once: the caller's connect() does not become an attempt
\* in flight (it starts no scan and creates no client).
C11_ConnectOnlyWhenDisconnected ==
    [][ user.op = "idle" /\ ~ Disconnected =>
            /\ user'.op # "connect"
            /\ cframe'[0].pc = "idle" ]_vars

(***************************************************************************)
(* send_periodic on a Bridge that is connected, where the link may break   *)
(* at any time and stays down (try_reconnect is off), or on a Bridge that  *)
(* was never connected.  The batch makes its send_signal calls one after   *)
(* the other.                                                              *)
(***************************************************************************)
InitBatch ==
    \/ InitSend
    \/ Init

BatchStep ==
    \/ \E count \in 1 .. NumSenders, gap \in { 0, 1 }, resends \in 1 .. MaxResends,
          stop_on_failure \in BOOLEAN :
            PeriodicCall(count, gap, resends, stop_on_failure)
    \/ PeriodicHead
    \/ PeriodicWake
    \/ PeriodicSent

BatchSendStep ==
    \E t \in Senders :
        \/ SendLockAcquire(t)
        \/ SendTakeId(t)
        \/ SendWrite(t)

NextBatch ==
    \/ BatchStep
    \/ BatchSendStep
    \/ \E c \in Clients : ConnectionLost(c)
    \/ ReconnectDecision

SpecBatch == InitBatch /\ [][NextBatch]_vars

(***************************************************************************)
(* Claims about send_signal, send_bytes and send_periodic, checked under   *)
(* SpecBatch.                                                              *)
(***************************************************************************)
\* C13: a failed write ends the call without an exception.  A call of
\* send_signal / send_bytes that attempts one of its  resends  writes while there
\* is no client or the link is down sets error_event, writes nothing and
\* returns; a write on a link that is up goes out and leaves error_event as it
\* is; a call that has returned attempts no further write; a call whose
\* error_event is set has returned with fewer than  resends  writes done, and a
\* call that returned without a failed write has done all of them with
\* error_event unset.
C13_FailedWriteAbsorbed ==
    [][ \A t \in Senders :
          /\ senders[t].pc = "write" /\ senders'[t] # senders[t] =>
                IF senders[t].writes >= senders[t].resends
                THEN /\ senders'[t] = [ senders[t] EXCEPT !.pc = "done" ]
                     /\ wire' = wire
                ELSE IF LinkUp
                THEN /\ senders'[t] = [ senders[t] EXCEPT !.writes = @ + 1 ]
                     /\ wire' # wire
                ELSE /\ senders'[t] = [ senders[t] EXCEPT !.pc = "done", !.err = TRUE ]
                     /\ wire' = wire
          /\ senders[t].pc = "done" => senders'[t] = senders[t]
          /\ senders'[t].err =>
                senders'[t].pc = "done" /\ senders'[t].writes < senders'[t].resends
          /\ senders'[t].pc = "done" /\ ~ senders'[t].err =>
                senders'[t].writes = senders'[t].resends ]_vars

\* C13 witness: a call with resends = 2 did its first write, the link broke, the
\* second write failed: the call has returned with error_event set and one
\* frame on the wire.
C13_Witness ==
    \E t \in Senders :
        /\ senders[t].pc = "done"
        /\ senders[t].err
        /\ senders[t].resends = 2
        /\ senders[t].writes = 1
        /\ wire = (senders[t].frame :> 1)
        /\ client = 1 /\ conns[1].state = "closed"

\* C14: send_periodic with stop_on_failure=True is fail-fast.  From the moment a
\* send of the batch has set the error event of the batch, the batch makes no
\* further send_signal call, no frame goes out on the transport, the batch
\* sleeps no further gap, and it is on its way to its return (it is in the send
\* that failed, at the test at the top of the loop, or has returned).
C14_FailFast ==
    [][ periodic.stop_on_failure /\ BatchFailed =>
            /\ periodic'.calls = periodic.calls
            /\ periodic'.sleeps = periodic.sleeps
            /\ wire' = wire
            /\ periodic.pc \in { "send", "head", "done" }
            /\ periodic'.pc \in { "head", "done" } \/ periodic' = periodic
            /\ periodic.pc = "done" => periodic' = periodic ]_vars

\* C14 witness: a batch of 3 sends with gap > 0 has returned after its second
\* send failed: 2 calls were made, 1 gap was slept.
C14_Witness ==
    /\ periodic.pc = "done"
    /\ periodic.stop_on_failure
    /\ periodic.count = 3
    /\ periodic.gap > 0
    /\ BatchFailed
    /\ Len(periodic.calls) = 2
    /\ periodic.sleeps = 1
    /\ periodic.i = 2

\* the send_signal calls of the batch whose writes all went out
SendsCarried ==
    { j \in 1 .. Len(periodic.calls) : ~ senders[periodic.calls[j]].err }

\* the link did not break in the middle of a send: a send that failed, failed at
\* its first write
FailedBetweenSends ==
    \A j \in 1 .. Len(periodic.calls) :
        senders[periodic.calls[j]].err => senders[periodic.calls[j]].writes = 0

\* C15: the number of sends of a batch on a failing transport.  When
\* send_periodic(count, gap, stop_on_failure=True) has returned and the
\* transport failed between two sends, from just after the k-th send on, the
\* batch has issued exactly k send_signal invocations: the k that the transport
\* carried, k >= 1 (2, not 5, when it fails after the 2nd send).
C15_ExactlyKSends ==
    /\ periodic.pc = "done"
    /\ periodic.stop_on_failure
    /\ FailedBetweenSends
    /\ SendsCarried # {}
    => Len(periodic.calls) = Cardinality(SendsCarried)

(***************************************************************************)
(* A Bridge that has never had a client (self.client is None): no device   *)
(* is in range, so a connect() ends with its scan and returns False, and   *)
(* the caller uses the other operations all the same.                      *)
(***************************************************************************)
OfflineCallerStep ==
    \/ \E dc \in DcCallbacks : CallerConnects(dc, FALSE, TRUE)
    \/ \E cb \in NotiCallbacks : EnableCall(cb)
    \/ DisableCall
    \/ \E on_timeout \in BOOLEAN, usr \in BOOLEAN : DisconnectCall(on_timeout, usr)
    \/ \E o \in RequestOps : RequestCall(o)

OfflineSendStep ==
    \E t \in Senders :
        \/ \E resends \in { 0, 1 } : SendSignalCall(t, 0, 1, resends, FALSE, 0, 0)
        \/ SendLockAcquire(t)
        \/ SendTakeId(t)
        \/ SendWrite(t)

NextOffline ==
    \/ OfflineCallerStep
    \/ ScanFails(0)
    \/ OfflineSendStep

SpecOffline == Init /\ [][NextOffline]_vars

\* C16: operations on a Bridge without a client.  While self.client is None and
\* no connect() is in flight, every step of notification_enable,
\* notification_disable, disconnect, request_bridge_info, request_battery,
\* send_bytes and send_signal leaves the transport alone (no client is created
\* or changed, no frame goes out, no subscription and no callback is
\* registered), none of these operations stays in flight waiting for the
\* transport or ends with an exception, and each returns its failure indicator:
\* False from notification_enable, notification_disable and disconnect, None
\* from request_bridge_info and request_battery, and the error event set by a
\* send that attempts a write (resends >= 1).
C16_NoClientFailsSoftly ==
    [][ client = 0 /\ cframe[0].pc = "idle" =>
            /\ client' = 0
            /\ conns' = conns
            /\ wire' = wire
            /\ noti_callback' = noti_callback
            /\ user'.op \in { "idle", "connect" }
            /\ user'.d # user.d => user'.d.result = "False" /\ user'.d.n = user.d.n + 1
            /\ \A o \in NoClientOps :
                  user'.ret[o] # user.ret[o] =>
                      user'.ret[o] = IF o \in RequestOps THEN "None" ELSE "False"
            /\ \A t \in Senders :
                  senders[t].pc = "write" /\ senders'[t] # senders[t] =>
                      /\ senders'[t].pc = "done"
                      /\ senders'[t].writes = 0
                      /\ senders'[t].err <=> senders[t].resends >= 1 ]_vars

\* C16 witness: on a Bridge without a client each of the four operations has
\* returned its failure indicator, disconnect() has returned False, and a
\* send_signal has returned with its error event set and nothing written.
C16_Witness ==
    /\ client = 0
    /\ \A c \in Clients : conns[c].state = "unborn"
    /\ user.op = "idle"
    /\ user.ret = [ o \in NoClientOps |-> IF o \in RequestOps THEN "None" ELSE "False" ]
    /\ user.d.result = "False" /\ user.d.n = 1
    /\ \E t \in Senders :
          senders[t].pc = "done" /\ senders[t].err /\ senders[t].resends = 1
    /\ wire = << >>

(***************************************************************************)
(* The checksum functions on their own: an input is drawn, calc_checksum   *)
(* and add_checksum are applied to it.                                     *)
(***************************************************************************)
\* longest input
MaxDataLen == 8

\* 7-byte inputs: the frames of the tests and the ends of the byte range
CodecFrames ==
    { << header, stone, status, reserved, message_id, checksum, color >> :
        header \in { 0, MSG_DEFAULT_HEADER, 255 }, stone \in { 0, 5, 255 },
        status \in { 0, 10, 255 }, reserved \in { 0, 10, 255 },
        message_id \in { 0, 3, 4, 10 }, checksum \in { 0, 77 },
        color \in { 0, 1, 2, 3, 255 } }

\* d cut or padded to n bytes
Resize(d, n) == [ j \in 1 .. n |-> IF j <= Len(d) THEN d[j] ELSE 1 ]

CodecInputs == { Resize(d, n) : d \in CodecFrames, n \in 0 .. MaxDataLen }

InitCodec ==
    /\ BridgeInit
    /\ conns = [ c \in Clients |-> NoConn ]
    /\ TasksInit
    /\ ObsInit
    /\ \E data \in CodecInputs, for_received \in BOOLEAN :
          codec = NoCodecCall(data, for_received)

\* calc_checksum(data, for_received) is called
CalcChecksumCall ==
    /\ ~ codec.calc_called
    /\ codec' = [ codec EXCEPT !.calc_called = TRUE,
                               !.sum = calc_checksum(codec.data, codec.for_received) ]
    /\ UNCHANGED << bridgeCfg, bridgeConn, bridgeNoti, bridgeSend, conns, connTasks,
                    handlers, senders, periodic, dc_calls, notiObs, arrived, sendObs,
                    call_args >>

\* add_checksum(data, for_received) is called
AddChecksumCall ==
    /\ ~ codec.add_called
    /\ codec' = [ codec EXCEPT !.add_called = TRUE,
                               !.out = add_checksum(codec.data, codec.for_received) ]
    /\ UNCHANGED << bridgeCfg, bridgeConn, bridgeNoti, bridgeSend, conns, connTasks,
                    handlers, senders, periodic, dc_calls, notiObs, arrived, sendObs,
                    call_args >>

NextCodec ==
    \/ CalcChecksumCall
    \/ AddChecksumCall

SpecCodec == InitCodec /\ [][NextCodec]_vars

(***************************************************************************)
(* Claims about the checksum functions, checked under SpecCodec.           *)
(***************************************************************************)
\* the sum of the first five bytes of the input
ByteSum == codec.data[1] + codec.data[2] + codec.data[3] + codec.data[4] + codec.data[5]

\* the first five bytes of the input
Body == SubSeq(codec.data, 1, 5)

\* C17: the outbound checksum.  For every 7-byte input d,
\* calc_checksum(d) = (d[0]+d[1]+d[2]+d[3]+d[4]) mod 256 whatever d[5] and d[6]
\* are, and add_checksum(d) is d with only byte 5 replaced by that value;
\* (19,5,0,0,0) gives 24 for the colors 1, 2 and 3, (19,5,10,10,10) gives 54
\* whatever the old checksum byte, (255,255,255,255,3) gives 255 and
\* (255,255,255,255,4) gives 0.
C17_OutboundChecksum ==
    Len(codec.data) = 7 /\ ~ codec.for_received =>
        /\ codec.calc_called =>
              /\ codec.sum = ByteSum % 256
              /\ Body = << 19, 5, 0, 0, 0 >> => codec.sum = 24
              /\ Body = << 19, 5, 10, 10, 10 >> => codec.sum = 54
              /\ Body = << 255, 255, 255, 255, 3 >> => codec.sum = 255
              /\ Body = << 255, 255, 255, 255, 4 >> => codec.sum = 0
        /\ codec.add_called =>
              /\ Len(codec.out) = 7
              /\ \A j \in { 1, 2, 3, 4, 5, 7 } : codec.out[j] = codec.data[j]
              /\ codec.out[6] = ByteSum % 256
              /\ Body = << 19, 5, 0, 0, 0 >> /\ codec.data[7] \in { 1, 2, 3 }
                    => codec.out[6] = 24
              /\ Body = << 255, 255, 255, 255, 4 >> => codec.out[6] = 0

\* C17 witness: the wrap-around input (255,255,255,255,4) with a stale checksum
\* byte went through both functions.
C17_Witness ==
    /\ codec.data = << 255, 255, 255, 255, 4, 77, 1 >>
    /\ ~ codec.for_received
    /\ codec.calc_called /\ codec.sum = 0
    /\ codec.add_called /\ codec.out = << 255, 255, 255, 255, 4, 0, 1 >>

\* C18: the length check.  For every input whose length is not 7 (empty,
\* shorter, longer), calc_checksum and add_checksum return None, for the
\* outbound and for the inbound variant; for every input of length 7 both
\* return a result that is not None.
C18_LengthCheck ==
    /\ codec.calc_called =>
          IF Len(codec.data) = 7 THEN codec.sum \in Byte ELSE codec.sum = NoneInt
    /\ codec.add_called =>
          IF Len(codec.data) = 7 THEN Len(codec.out) = 7 ELSE codec.out = <<>>

\* C18 witness: an input of 8 bytes went through both functions of the inbound
\* variant.
C18_Witness ==
    /\ Len(codec.data) = 8
    /\ codec.for_received
    /\ codec.calc_called /\ codec.sum = NoneInt
    /\ codec.add_called /\ codec.out = <<>>

\* C19: the inbound checksum.  For every 7-byte input d,
\* calc_checksum(d, for_received=True)
\*   = (((d[0]+d[1]+d[2]+d[3]+d[4]) mod 256) + d[6] - 1) mod 256,
\* the result lies in 0..255 (color 0 with a zero byte sum gives 255), and it
\* equals the outbound checksum of d exactly when the color byte is 1.
C19_InboundChecksum ==
    Len(codec.data) = 7 /\ codec.for_received /\ codec.calc_called =>
        /\ codec.sum = ((ByteSum % 256) + codec.data[7] - 1) % 256
        /\ codec.sum \in Byte
        /\ ByteSum = 0 /\ codec.data[7] = 0 => codec.sum = 255
        /\ (codec.sum = ByteSum % 256) <=> (codec.data[7] = 1)
        /\ codec.add_called => codec.out[6] = codec.sum

\* C19 witness: the inbound checksum of the all-zero frame with color 0 is 255.
C19_Witness ==
    /\ codec.data = << 0, 0, 0, 0, 0, 0, 0 >>
    /\ codec.for_received
    /\ codec.calc_called
    /\ codec.sum = 255

(***************************************************************************)
(* The inbound path on payloads of every shape, checked under SpecScan: a  *)
(* connected, subscribed Bridge receives payloads drawn from ScanPayloads, *)
(* any of them more than once.                                             *)
(***************************************************************************)
\* payloads the device delivers in a run of SpecScan
MaxPayloads == 3

\* a frame whose checksum byte is wrong (the inbound formula gives 30)
BadFrame == << MSG_DEFAULT_HEADER, STONE_BRIDGE, 0, 0, 5, 99, 1 >>

\* payloads without a frame: a header byte with too few bytes after it, at the
\* start and at the end, and seven and more bytes without a header byte;
\* payloads with frames: a frame alone, with a wrong checksum, between other
\* bytes, with a header byte inside it (two overlapping candidates), and two
\* frames with a byte between them
ScanPayloads ==
    { Noise,
      << 0, 0, MSG_DEFAULT_HEADER, 1, 2, 3, 4, 5 >>,
      << 1, 2, 3, 4, 5, 6, 7, 8 >>,
      InFrame(1),
      BadFrame,
      << 7 >> \o InFrame(2) \o << 8 >>,
      << MSG_DEFAULT_HEADER, MSG_DEFAULT_HEADER, 1, 2, 3, 4, 5, 6 >>,
      InFrame(3) \o << 49 >> \o BadFrame }

\* bleak calls __notification_handler with payload p
ArrivePayload(c, p) ==
    /\ arrived.noise < MaxPayloads
    /\ SpawnHandler(p, c)
    /\ arrived' = [ arrived EXCEPT !.noise = @ + 1 ]

PayloadArrives ==
    /\ Running
    /\ \E c \in Clients, p \in ScanPayloads :
          /\ Subscribed(c)
          /\ ArrivePayload(c, p)
    /\ UNCHANGED << bridgeCfg, bridgeConn, bridgeNoti, bridgeSend, conns, connTasks,
                    senders, dc_calls, notiObs, sendObs,
                    periodic, codec, call_args >>

NextScan ==
    \/ PayloadArrives
    \/ HandlerStep

SpecScan == InitNoti /\ [][NextScan]_vars

\* the payload holds a byte 19 that has six more bytes after it
HasCandidate(data) ==
    \E i \in 1 .. Len(data) : data[i] = 19 /\ i + 6 <= Len(data)

\* C21: unstructured payloads.  A payload in which no 7-byte frame starting with
\* header byte 19 is found makes the handler invoke the notification callback
\* once, with the seven fields None (the empty signal) and Data equal to the
\* payload, without touching the duplicate window; when that invocation returns
\* the task ends without another invocation.
C21_UnstructuredOnce ==
    [][ \A h \in Handlers :
          /\ ( /\ handlers[h].pc = "start"
               /\ handlers'[h].pc # "start"
               /\ ~ HasCandidate(handlers[h].data) ) =>
                  /\ handlers'[h].pc = "cb_u"
                  /\ noti_count' = noti_count + 1
                  /\ noti_last' = [ cb |-> noti_callback, signal |-> <<>>,
                                    Data |-> handlers[h].data ]
                  /\ delivered' = delivered
                  /\ last_notifications' = last_notifications
          /\ handlers[h].pc = "cb_u" /\ handlers'[h] # handlers[h] =>
                  /\ handlers'[h].pc = "free"
                  /\ noti_count' = noti_count
                  /\ last_notifications' = last_notifications ]_vars

\* C21 witness: the callback is being invoked with the None fields and the raw
\* bytes of an 8-byte payload without a header byte, while the window holds a
\* frame that was accepted before.
C21_Witness ==
    \E h \in Handlers :
        /\ handlers[h].pc = "cb_u"
        /\ handlers[h].data = << 1, 2, 3, 4, 5, 6, 7, 8 >>
        /\ noti_last = [ cb |-> "cbA", signal |-> <<>>, Data |-> handlers[h].data ]
        /\ noti_count = 2
        /\ last_notifications = << JoinHex(InFrame(1)) >>

\* the frames of a payload, read from its bytes: from position i on, each byte 19
\* that has six bytes after it starts a frame, and the search goes on behind it
RECURSIVE Candidates(_, _)
Candidates(data, i) ==
    IF i + 6 > Len(data) THEN <<>>
    ELSE IF data[i] = 19
         THEN << SubSeq(data, i, i + 6) >> \o Candidates(data, i + 7)
         ELSE Candidates(data, i + 1)

\* the frame handler h is at in its loop
CurrentFrame(h) == Candidates(handlers[h].data, 1)[handlers[h].i]

\* handler h is at a frame of its payload
AtFrame(h) ==
    /\ handlers[h].pc \in { "next", "cb_s" }
    /\ handlers[h].i \in 1 .. Len(handlers[h].sigs)
    /\ handlers[h].i <= Len(Candidates(handlers[h].data, 1))

\* the checksum byte of the frame is not the one the inbound formula gives
ChecksumWrong(frame) ==
    frame[6] # (frame[1] + frame[2] + frame[3] + frame[4] + frame[5] + frame[7] - 1) % 256

Raised == { "TypeError", "Exception" }

\* the awaited notification callback raises exc.  The structured invocation is
\* inside "try ... except TypeError", within the "try ... finally" that releases
\* __noti_lock; the unstructured invocation is in no try statement.  An exception
\* that is not caught ends the task.
CallbackRaises(h, exc) ==
    /\ Running
    /\ handlers[h].pc \in { "cb_s", "cb_u" }
    /\ exc \in Raised
    /\ IF handlers[h].pc = "cb_s" /\ exc = "TypeError"
       THEN /\ handlers' = [ handlers EXCEPT ![h].pc = "next", ![h].i = @ + 1 ]
            /\ UNCHANGED noti_lock
       ELSE /\ handlers' = [ handlers EXCEPT ![h] = IdleHandler ]
            /\ noti_lock' = IF handlers[h].pc = "cb_s"
                            THEN FinallyRelease(noti_lock)
                            ELSE noti_lock
    /\ UNCHANGED << bridgeCfg, bridgeConn, noti_callback, last_notifications,
                    bridgeSend, conns, connTasks, senders, dc_calls, notiObs,
                    arrived, sendObs,
                    periodic, codec, call_args >>

\* the link of a connected client breaks and the disconnect callback raises exc
\* inside __disconnect_callback: TypeError is caught and the reconnect decision
\* follows, another exception leaves __disconnect_callback before it
ConnectionLostRaises(c, exc) ==
    /\ Running
    /\ conns[c].state = "connected"
    /\ ~ conns[c].closing
    /\ dc_callback # None
    /\ exc \in Raised
    /\ conns' = [ conns EXCEPT ![c].state = "closed", ![c].notifying = FALSE ]
    /\ InvokeDc(user_disconnected, FALSE, "dcb", c, 0)
    /\ dcb' = IF exc = "TypeError" THEN [ pc |-> "decide", c |-> c ] ELSE dcb
    /\ UNCHANGED << bridgeCfg, bridgeConn, noti_callback, user, cframe, reconn,
                    dataPath >>

InitRaise ==
    /\ client = 1
    /\ dc_callback = "dcA"
    /\ try_reconnect = TRUE
    /\ restart_notifications = TRUE
    /\ noti_callback = "cbA"
    /\ noti_lock = FreeLock
    /\ send_lock = FreeLock
    /\ address = "addr"
    /\ next_send_id = 0
    /\ user_disconnected = FALSE
    /\ last_notifications = <<>>
    /\ conns = [ c \in Clients |-> IF c = 1 THEN LiveConn(TRUE) ELSE NoConn ]
    /\ TasksInit
    /\ ObsInit
    /\ codec = IdleCodec

NextRaise ==
    \/ PayloadArrives
    \/ HandlerStep
    \/ \E h \in Handlers, exc \in Raised : CallbackRaises(h, exc)
    \/ \E c \in Clients : ConnectionLost(c)
    \/ \E c \in Clients, exc \in Raised : ConnectionLostRaises(c, exc)
    \/ ReconnectDecision

SpecRaise == InitRaise /\ [][NextRaise]_vars

\* C23: errors of callbacks do not propagate.  Whatever a notification callback
\* raises in a structured invocation, the handler goes on with the next frame of
\* the payload; and whatever the disconnect callback raises when the link
\* breaks, the reconnect decision is taken next.
C23_CallbackErrorsContained ==
    [][ /\ \A h \in Handlers :
              handlers[h].pc = "cb_s" /\ handlers'[h] # handlers[h] =>
                  /\ handlers'[h].pc = "next"
                  /\ handlers'[h].i = handlers[h].i + 1
        /\ \A c \in Clients :
              conns[c].state = "connected" /\ conns'[c].state = "closed" =>
                  dcb'.pc = "decide" ]_vars

(***************************************************************************)
(* notification_enable with two callbacks, checked under SpecEnable: a     *)
(* caller that calls notification_enable("cbA" or "cbB") and               *)
(* notification_disable() at any time, before the first connect(), while   *)
(* connected and after the link broke (try_reconnect is False), while the  *)
(* device sends notifications.                                             *)
(***************************************************************************)
EnableCallbacks == { "cbA", "cbB" }

EnableCallerStep ==
    \/ FirstConnect(None, FALSE, TRUE)
    \/ \E cb \in EnableCallbacks : EnableCall(cb)
    \/ EnableReturns
    \/ DisableCall

NextEnable ==
    \/ EnableCallerStep
    \/ ConnectStep
    \/ \E c \in Clients : ConnectionLost(c)
    \/ ReconnectDecision
    \/ LifeNotification
    \/ HandlerStep

SpecEnable == Init /\ [][NextEnable]_vars

\* C24: notification_enable registers the callback only when the subscription
\* succeeds.  When start_notify has returned (True is returned) noti_callback is
\* the callback that was given, whatever it was before; a call that fails (False
\* is returned at once: no client, no link, or the transport refuses) leaves
\* noti_callback and the subscriptions as they are; a call fails whenever the
\* link is not up; and noti_callback changes in no other step.
C24_RegisteredOnSuccess ==
    [][ /\ user.op = "enable" /\ user'.op = "idle" =>
              /\ user.cb \in EnableCallbacks
              /\ noti_callback' = user.cb
        /\ \A cb \in EnableCallbacks :
              /\ EnableCall(cb) /\ user'.op = "idle" =>
                    /\ noti_callback' = noti_callback
                    /\ conns' = conns
              /\ EnableCall(cb) /\ ~ LinkUp => user'.op = "idle"
              /\ EnableCall(cb) /\ user'.op = "enable" =>
                    /\ user'.cb = cb
                    /\ noti_callback' = noti_callback
        /\ noti_callback' # noti_callback =>
              user.op = "enable" /\ user'.op = "idle" ]_vars

\* C24 witness: a notification was delivered to "cbA", which was registered
\* first; a later notification_enable("cbB") succeeded and "cbB" is the
\* registered callback now.
C24_Witness ==
    /\ noti_last.cb = "cbA"
    /\ noti_callback = "cbB"
    /\ user.op = "idle"
    /\ LinkUp
    /\ Subscribed(client)

(***************************************************************************)
(* Argument checks of connect() and notification_enable(), checked under   *)
(* SpecConfig: a caller that passes arguments of every kind.               *)
(***************************************************************************)
\* dc_callback: None, a callable, an object that is neither callable nor falsy
\* (a non-empty string), an object that is not callable and falsy (0, "")
DcKinds == { "None", "callable", "truthy", "falsy" }
\* name_or_addr: a str or not
IdKinds == { "str", "other" }
\* timeout: an int or float that is not negative, a negative one, another object
TimeoutKinds == { "number", "negative", "other" }
\* callback of notification_enable: a callable or not (None is not callable)
CbKinds == { "callable", "other" }
\* uuid: a str or not
UuidKinds == { "str", "other" }

\* "if dc_callback and not callable(dc_callback)", "if not isinstance(name_or_addr,
\* str)", "if not isinstance(timeout, (int, float))": each raises TypeError
ConnectRaises(dc, id, timeout) ==
    \/ dc \in { "callable", "truthy" } /\ dc # "callable"
    \/ id # "str"
    \/ timeout \notin { "number", "negative" }

\* "if not isinstance(uuid, str)", "if not callable(callback)"
EnableRaises(cb, uuid) ==
    \/ uuid # "str"
    \/ cb # "callable"

\* what self.dc_callback holds after "self.dc_callback = dc_callback"; a falsy
\* object is never invoked ("if self.dc_callback"), as None
DcStored(dc) == IF dc = "callable" THEN "dcA" ELSE None

\* the caller calls connect(name_or_addr, timeout=..., dc_callback=...,
\* try_reconnect=tr, restart_notifications=rn): the two flags are assigned, the
\* arguments are checked, then dc_callback is assigned and the scan starts
CheckedConnect(dc, id, timeout, tr, rn) ==
    /\ Running
    /\ user.op = "idle"
    /\ Disconnected
    /\ try_reconnect' = tr
    /\ restart_notifications' = rn
    /\ IF ConnectRaises(dc, id, timeout)
       THEN /\ call_args' = [ NoCall EXCEPT !.op = "connect", !.dc = dc, !.id = id,
                                            !.timeout = timeout,
                                            !.outcome = "TypeError" ]
            /\ UNCHANGED << dc_callback, cframe, user >>
       ELSE /\ call_args' = [ NoCall EXCEPT !.op = "connect", !.dc = dc, !.id = id,
                                            !.timeout = timeout, !.outcome = "scan" ]
            /\ dc_callback' = DcStored(dc)
            /\ cframe' = [ cframe EXCEPT ![0] = [ pc |-> "scan", c |-> 0 ] ]
            /\ user' = [ user EXCEPT !.op = "connect" ]
    /\ UNCHANGED << client, noti_callback, address, user_disconnected, conns, reconn,
                    dcb, dc_calls, dataWork >>

\* the caller calls notification_enable(callback, uuid): the arguments are
\* checked, then start_notify is awaited
CheckedEnable(cb, uuid) ==
    /\ Running
    /\ user.op = "idle"
    /\ IF EnableRaises(cb, uuid)
       THEN /\ call_args' = [ NoCall EXCEPT !.op = "notification_enable", !.cb = cb,
                                            !.uuid = uuid, !.outcome = "TypeError" ]
            /\ UNCHANGED << user, conns >>
       ELSE /\ call_args' = [ NoCall EXCEPT !.op = "notification_enable", !.cb = cb,
                                            !.uuid = uuid,
                                            !.outcome = "start_notify" ]
            /\ EnterEnable("cbA")
    /\ UNCHANGED << bridgeCfg, bridgeConn, noti_callback, cframe, reconn, dcb,
                    dc_calls, dataWork >>

ConfigCallerStep ==
    \/ \E dc \in DcKinds, id \in IdKinds, timeout \in TimeoutKinds, tr \in BOOLEAN :
          CheckedConnect(dc, id, timeout, tr, TRUE)
    \/ \E cb \in CbKinds, uuid \in UuidKinds : CheckedEnable(cb, uuid)
    \/ EnableReturns

NextConfig ==
    \/ ConfigCallerStep
    \/ ConnectStep
    \/ \E c \in Clients : ConnectionLost(c)
    \/ ReconnectDecision

SpecConfig == Init /\ [][NextConfig]_vars

\* C25: configuration errors are rejected at the call.  When the caller's latest
\* connect() had a dc_callback that is neither None nor callable, an identifier
\* that is not a string, or a timeout that is not a number or is negative, it
\* raised before the scan; when its latest notification_enable() had a callback
\* that is not callable, it raised before start_notify.
C25_ConfigRejected ==
    /\ ( /\ call_args.op = "connect"
         /\ \/ call_args.dc \in { "truthy", "falsy" }
            \/ call_args.id # "str"
            \/ call_args.timeout \in { "negative", "other" } ) =>
            call_args.outcome = "TypeError"
    /\ call_args.op = "notification_enable" /\ call_args.cb # "callable" =>
            call_args.outcome = "TypeError"

(***************************************************************************)
(* More claims about the outbound path, checked under SpecSend.            *)
(***************************************************************************)
\* the lock is held by a call that is between acquire() and release(), and by
\* no call that is waiting for it, writing, sleeping between resends or done
LockScope ==
    /\ send_lock.holder # 0 => senders[send_lock.holder].pc = "locked"
    /\ \A t \in Senders : senders[t].pc = "locked" => send_lock.holder = t

\* C26: the scope of the send lock.  In every state the lock is held only by a
\* call that is at the read-and-increment of the counter, never by one that is
\* suspended in a write or in the delay between resends; the step of a holder
\* releases the lock, takes the ID and increments the counter at once; and the
\* counter changes in no other step.
C26_LockScope ==
    [][ /\ LockScope
        /\ LockScope'
        /\ \A t \in Senders :
              send_lock.holder = t /\ senders'[t] # senders[t] =>
                  /\ send_lock'.holder = 0
                  /\ senders'[t].pc = "write"
                  /\ senders'[t].writes = 0
                  /\ next_send_id' = (next_send_id + 1) % 256
        /\ next_send_id' # next_send_id => send_lock.holder # 0 ]_vars

\* C26 witness: the first call is suspended between its two writes, the second
\* call got the next ID and has made a write too, and the third call holds the
\* lock meanwhile.
C26_Witness ==
    /\ senders[1].pc = "write" /\ senders[1].writes = 1 /\ senders[1].resends > 1
    /\ senders[2].pc = "write" /\ senders[2].writes = 1
    /\ ~ senders[1].random_id /\ ~ senders[2].random_id
    /\ senders[2].message_id = (senders[1].message_id + 1) % 256
    /\ send_lock.holder = 3

(***************************************************************************)
(* Resends, checked under SpecResend: send_signal calls with every number  *)
(* of resends from 0 on, on a Bridge that is connected and on one that has *)
(* never connected; the link of the connected one may break.               *)
(***************************************************************************)
ResendStep ==
    \E t \in Senders :
        \/ \E resends \in 0 .. MaxResends :
              SendSignalCall(t, 0, 1, resends, FALSE, IdModulus - 2, 0)
        \/ SendLockAcquire(t)
        \/ SendTakeId(t)
        \/ SendWrite(t)

NextResend ==
    \/ ResendStep
    \/ \E c \in Clients : ConnectionLost(c)
    \/ ReconnectDecision

SpecResend == InitBatch /\ [][NextResend]_vars

\* how often the frame was written on the transport
Written(frame) == IF frame \in DOMAIN wire THEN wire[frame] ELSE 0

\* the calls that have built their frame
Framed == { t \in Senders : senders[t].pc \in { "write", "done" } }

\* C27: resends.  Every write of a call carries the one frame the call built (7
\* bytes, with the call's message ID and reserved byte and their checksum), and
\* nothing else is written; a call of which no write failed has, when it
\* returns, made exactly  resends  writes, and it does not return before; a call
\* with resends = 0 makes no write and sets no error event, with or without a
\* connection.
C27_ExactlyResends ==
    /\ \A t \in Framed :
          LET s == senders[t]
          IN  /\ Len(s.frame) = 7
              /\ s.frame[4] = s.reserved
              /\ s.frame[5] = s.message_id
              /\ s.frame[6] = (19 + 6 + s.status + s.reserved + s.message_id) % 256
              /\ Written(s.frame) = s.writes
              /\ s.writes <= s.resends
              /\ s.pc = "done" /\ ~ s.err => s.writes = s.resends
              /\ s.resends = 0 => s.writes = 0 /\ ~ s.err
    /\ DOMAIN wire \subseteq { senders[t].frame : t \in Framed }

\* C27 witness: a call with the largest number of resends has returned after
\* that many writes of its frame; the link broke, and a call with resends = 0
\* has then returned without a write and without an error.
C27_Witness ==
    /\ senders[1].pc = "done" /\ ~ senders[1].err
    /\ senders[1].resends = MaxResends
    /\ Written(senders[1].frame) = MaxResends
    /\ ~ LinkUp
    /\ senders[2].pc = "done" /\ senders[2].resends = 0
    /\ senders[2].writes = 0 /\ ~ senders[2].err

(***************************************************************************)
(* More claims about send_periodic, checked under SpecBatch (no other      *)
(* sender runs beside the batch).                                          *)
(***************************************************************************)
\* the send_signal calls of the batch that have got their message ID
BatchIds ==
    { j \in 1 .. Len(periodic.calls) :
        senders[periodic.calls[j]].pc \in { "write", "done" } }

\* C28: send_periodic emits count signals.  The send_signal calls of a batch are
\* made one after the other (a call is made when the one before it has
\* returned), never more than count of them; there is no sleep before the first
\* call and, when gap > 0, one sleep before each later call; the j-th call gets
\* the message ID id_start + j - 1 modulo 256; and when send_periodic has
\* returned and no send failed or stop_on_failure is False, exactly count calls
\* were made.
C28_ExactlyCount ==
    LET n == Len(periodic.calls)
    IN  /\ n <= periodic.count
        /\ \A j \in 1 .. n : j < n => senders[periodic.calls[j]].pc = "done"
        /\ \A j, k \in 1 .. n : j # k => periodic.calls[j] # periodic.calls[k]
        /\ periodic.sleeps =
              IF periodic.gap = 0 \/ n = 0 THEN 0
              ELSE IF periodic.pc = "sleep" THEN n
              ELSE n - 1
        /\ \A j \in BatchIds :
              senders[periodic.calls[j]].message_id = (id_start + j - 1) % 256
        /\ ( /\ periodic.pc = "done"
             /\ ~ periodic.stop_on_failure \/ ~ BatchFailed ) => n = periodic.count

\* C28 witness: a batch of three with gap > 0 and stop_on_failure = False has
\* returned; its first send failed, all three calls were made, with two sleeps,
\* and the message IDs wrapped from 255 to 0.
C28_Witness ==
    /\ periodic.pc = "done"
    /\ periodic.count = 3
    /\ periodic.gap > 0
    /\ ~ periodic.stop_on_failure
    /\ senders[periodic.calls[1]].err
    /\ Len(periodic.calls) = 3
    /\ periodic.sleeps = 2
    /\ senders[periodic.calls[2]].message_id = 255
    /\ senders[periodic.calls[3]].message_id = 0

(***************************************************************************)
(* The duplicate window as a data structure, checked under SpecNoti.       *)
(***************************************************************************)
\* the window after frame text x was accepted into window w: x is the newest
\* entry, and the oldest entry has left when w was full
Accepted(w, x) ==
    IF Len(w) < WindowSize THEN Append(w, x) ELSE Append(Tail(w), x)

\* C29: the duplicate window.  In every state __last_notifications holds at most
\* 12 entries and no two equal ones.  It changes only when a handler comes to a
\* frame that is not in it: the frame becomes the newest entry, the other
\* entries keep their order, and exactly the oldest one leaves when the window
\* was full.  A handler that comes to a frame leaves the window alone and makes
\* no callback exactly when the frame equals an entry of the window.
C29_Window ==
    /\ [] ( /\ Len(last_notifications) <= WindowSize
            /\ \A j, k \in 1 .. Len(last_notifications) :
                  j # k => last_notifications[j] # last_notifications[k] )
    /\ [][ /\ last_notifications' # last_notifications =>
                \E h \in Handlers :
                    /\ AtFrame(h)
                    /\ handlers[h].pc = "next"
                    /\ handlers'[h] # handlers[h]
                    /\ ~ InWindow(JoinHex(CurrentFrame(h)), last_notifications)
                    /\ last_notifications' =
                          Accepted(last_notifications, JoinHex(CurrentFrame(h)))
           /\ \A h \in Handlers :
                ( /\ AtFrame(h)
                  /\ handlers[h].pc = "next"
                  /\ handlers'[h] # handlers[h] ) =>
                    IF InWindow(JoinHex(CurrentFrame(h)), last_notifications)
                    THEN /\ last_notifications' = last_notifications
                         /\ noti_count' = noti_count
                         /\ handlers'[h].pc = "next"
                    ELSE /\ last_notifications' # last_notifications
                         /\ handlers'[h].pc = "cb_s" ]_vars

\* C29 witness: the first frame arrived 13 times in a row and was accepted once;
\* 12 other frames were accepted after it and filled the window; then it arrived
\* again, was accepted again and is the newest of the 12 entries, the second
\* frame having left the window.
C29_Witness ==
    /\ Quiescent
    /\ arrived.copies = MaxCopies
    /\ arrived.fresh = WindowSize + 1
    /\ arrived.late = 1
    /\ DeliveredCount(1) = 2
    /\ Len(last_notifications) = WindowSize
    /\ last_notifications[WindowSize] = JoinHex(InFrame(1))
    /\ last_notifications[1] = JoinHex(InFrame(3))
    /\ ~ InWindow(JoinHex(InFrame(2)), last_notifications)

(***************************************************************************)
(* Frame scanning, checked under SpecScan.                                 *)
(***************************************************************************)
\* the frames that the payloads of the mixed stream hold
StreamFrames ==
    { Candidates(p, 1)[j] : << p, j >> \in
        { pj \in ScanPayloads \X (1 .. MaxDataLen) : pj[2] <= Len(Candidates(pj[1], 1)) } }

\* C30: frame scanning.  The matches a handler works on, decoded, are the frames
\* found in the bytes of its payload from left to right, each made of a byte 19
\* and the six bytes after it, the search going on right behind a frame; every
\* structured callback has got such a frame, so its Header is 19 and bytes
\* outside the frames were never decoded; a handler takes the structured path
\* only with a payload that holds a byte 19 followed by six more bytes, and the
\* unstructured path only with a payload that holds none (one shorter than 7
\* bytes included).
C30_Scanning ==
    /\ \A h \in Handlers :
          /\ handlers[h].pc \in { "wait", "next", "cb_s" } =>
                /\ HasCandidate(handlers[h].data)
                /\ Len(handlers[h].data) >= FrameLen
                /\ Len(handlers[h].sigs) = Len(Candidates(handlers[h].data, 1))
                /\ \A j \in 1 .. Len(handlers[h].sigs) :
                      /\ DecodeSignal(handlers[h].sigs[j]) = Candidates(handlers[h].data, 1)[j]
                      /\ DecodeSignal(handlers[h].sigs[j])[1] = MSG_DEFAULT_HEADER
          /\ handlers[h].pc = "cb_u" =>
                /\ ~ HasCandidate(handlers[h].data)
                /\ Candidates(handlers[h].data, 1) = <<>>
          /\ ( handlers[h].pc \notin { "free", "start" } /\ Len(handlers[h].data) < FrameLen ) =>
                handlers[h].pc = "cb_u"
    /\ \A signal \in DOMAIN delivered :
          /\ signal[1] = MSG_DEFAULT_HEADER
          /\ signal \in StreamFrames
    /\ noti_last.signal # <<>> =>
          \E j \in 1 .. Len(Candidates(noti_last.Data, 1)) :
              Candidates(noti_last.Data, 1)[j] = noti_last.signal

\* C30 witness: of the payload 19 19 1 2 3 4 5 6 the first seven bytes were
\* delivered and the overlapping 19 1 2 3 4 5 6 was not; of the payload holding
\* a frame, one stray byte and another frame both frames were delivered; and a
\* handler is on the unstructured path with a payload in which byte 19 has only
\* five bytes behind it.
C30_Witness ==
    /\ << 19, 19, 1, 2, 3, 4, 5 >> \in DOMAIN delivered
    /\ << 19, 1, 2, 3, 4, 5, 6 >> \notin DOMAIN delivered
    /\ InFrame(3) \in DOMAIN delivered
    /\ BadFrame \in DOMAIN delivered
    /\ \E h \in Handlers :
          /\ handlers[h].pc = "cb_u"
          /\ handlers[h].data = << 0, 0, 19, 1, 2, 3, 4, 5 >>

(***************************************************************************)
(* Replacing the notification callback while payloads are being handled,   *)
(* checked under SpecSwap: a connected, subscribed Bridge with "cbA"; the  *)
(* caller calls notification_disable() and notification_enable("cbA" or    *)
(* "cbB") at any time while payloads of the mixed stream arrive.           *)
(***************************************************************************)
SwapCallerStep ==
    \/ \E cb \in EnableCallbacks : EnableCall(cb)
    \/ EnableReturns
    \/ DisableCall

NextSwap ==
    \/ SwapCallerStep
    \/ PayloadArrives
    \/ HandlerStep

SpecSwap == InitNoti /\ [][NextSwap]_vars

\* C31: a dispatch completes with the callback registered when it started.  When
\* a handler that has already delivered a frame of its payload to a callback
\* delivers a later frame of the same payload, it invokes the same callback.
C31_CapturedCallback ==
    [][ \A h \in Handlers :
          ( /\ handlers[h].pc = "next"
            /\ handlers[h].cb # None
            /\ handlers'[h].pc = "cb_s" ) =>
                handlers'[h].cb = handlers[h].cb ]_vars

\* the handlers that are inside an invocation of the notification callback
InCallback == { h \in Handlers : handlers[h].pc \in { "cb_u", "cb_s" } }

\* C32: notifications are dispatched strictly one after the other.  While the
\* callback invocation made for one notification has not returned, no callback
\* invocation for another notification has begun: at most one handler is inside
\* the notification callback.  Checked under SpecScan.
C32_OneAtATime == Cardinality(InCallback) <= 1

(***************************************************************************)
(* A whole session, checked under SpecSession: a connected, subscribed     *)
(* Bridge receives frames and sends signals; the caller calls              *)
(* disconnect(), later connect() and notification_enable("cbA") again.     *)
(***************************************************************************)
SessionCallerStep ==
    \/ DisconnectCall(FALSE, TRUE)
    \/ DisconnectReturns
    \/ CallerConnects(None, FALSE, TRUE)
    \/ EnableCall("cbA")
    \/ EnableReturns

\* one send_signal call at a time
SessionSendStep ==
    \/ SendSignalCall(1, 0, 1, 1, FALSE, 0, 0)
    \/ SendLockAcquire(1)
    \/ SendTakeId(1)
    \/ SendWrite(1)

NextSession ==
    \/ SessionCallerStep
    \/ ConnectStep
    \/ \E c \in Clients : CloseCompletes(c)
    \/ ReconnectDecision
    \/ LifeNotification
    \/ HandlerStep
    \/ SessionSendStep

SpecSession == InitNoti /\ [][NextSession]_vars

\* the caller's latest disconnect() has returned True and no connect() was
\* called since
UserDisconnectDone ==
    /\ user.op = "idle"
    /\ user.d.usr
    /\ user.d.result = "True"
    /\ Disconnected
    /\ client \in { 0, user.d.c }

\* C33: the fields of the Bridge are reset on an explicit disconnect.  When a
\* disconnect() of the user has completed, the duplicate window is empty and the
\* message-ID counter, the notification callback and the client have the values
\* __init__ gave them.
C33_ResetOnDisconnect ==
    UserDisconnectDone =>
        /\ last_notifications = <<>>
        /\ next_send_id = 0
        /\ noti_callback = None
        /\ client = 0

(***************************************************************************)
(* The frame of send_signal against the checksum functions, checked under  *)
(* SpecFrame: one send_signal call on a connected Bridge with header,      *)
(* stone, status and color drawn from the ends of the byte range and the   *)
(* protocol's values, with and without random_id.                          *)
(***************************************************************************)
HeaderSample == { 0, MSG_DEFAULT_HEADER, 255 }
StoneSample == { 0, STONE_BRIDGE, 255 }
StatusSample == { 0, 10, 255 }
ColorSample == { 0, 1, 255 }

\* send_signal(status, color_channel, resends=1, random_id=random_id,
\* header=header, stone=stone) is called
SendSignalWith(header, stone, status, color_channel, random_id, reserved, rand) ==
    /\ Running
    /\ EnterSendSignalWith(1,
          [ IdleSender EXCEPT !.pc = "acquire", !.header = header, !.stone = stone,
                              !.status = status, !.color = color_channel,
                              !.resends = 1, !.random_id = random_id,
                              !.reserved = reserved, !.rand = rand ])
    /\ UNCHANGED << bridgeCfg, bridgeConn, bridgeNoti, next_send_id, conns, connTasks,
                    handlers, dc_calls, notiObs, arrived, sendObs,
                    periodic, codec, call_args >>

FrameStep ==
    \/ \E header \in HeaderSample, stone \in StoneSample, status \in StatusSample,
          color_channel \in ColorSample, random_id \in BOOLEAN,
          reserved \in RandomSample, rand \in RandomSample :
            SendSignalWith(header, stone, status, color_channel, random_id, reserved, rand)
    \/ SendLockAcquire(1)
    \/ SendTakeId(1)
    \/ SendWrite(1)

NextFrame == FrameStep

\* a connected Bridge whose counter stands at 0, at 254 or at 255
InitFrame ==
    /\ client = 1
    /\ dc_callback = None
    /\ try_reconnect = FALSE
    /\ restart_notifications = TRUE
    /\ noti_callback = None
    /\ noti_lock = FreeLock
    /\ send_lock = FreeLock
    /\ address = "addr"
    /\ next_send_id \in StartIds \cup { IdModulus - 1 }
    /\ user_disconnected = FALSE
    /\ last_notifications = <<>>
    /\ conns = [ c \in Clients |->
                  IF c = 1 THEN LiveConn(FALSE) ELSE NoConn ]
    /\ TasksInit
    /\ ObsInit
    /\ codec = IdleCodec

SpecFrame == InitFrame /\ [][NextFrame]_vars

\* C34: the frame of send_signal agrees with the codec.  The frame a send_signal
\* call hands to send_bytes is header, stone, status, reserved, message ID,
\* checksum, color, with checksum = (header + stone + status + reserved +
\* message ID) mod 256; calc_checksum of the frame (for_received False) is its
\* checksum byte and add_checksum of the frame is the frame itself; and what is
\* written to the transport is this frame.
C34_FrameAgreesWithCodec ==
    \A t \in Framed :
        LET s == senders[t]
        IN  /\ s.frame = << s.header, s.stone, s.status, s.reserved, s.message_id,
                            (s.header + s.stone + s.status + s.reserved + s.message_id) % 256,
                            s.color >>
            /\ \A j \in 1 .. 7 : s.frame[j] \in 0 .. 255
            /\ calc_checksum(s.frame, FALSE) = s.frame[6]
            /\ add_checksum(s.frame, FALSE) = s.frame
            /\ DOMAIN wire \subseteq { s.frame }

\* C34 witness: a frame whose sum of five bytes exceeds 255 (header, stone and
\* status 255, message ID 255) has been written with checksum byte
\* (3 * 255 + 254 + 255) mod 256 = 250.
C34_Witness ==
    /\ senders[1].pc = "done"
    /\ senders[1].frame = << 255, 255, 255, 254, 255, 250, 255 >>
    /\ Written(senders[1].frame) = 1

\* C35: the dispatch lock is released at the end of every structured dispatch.
\* Under SpecRaise, where a callback invocation returns, raises TypeError or
\* raises another exception: the lock is held only by a handler that is in its
\* loop or in a callback invocation, the handlers queued at the lock are exactly
\* those waiting in acquire(), and the step in which a handler that holds the
\* lock ends (by finishing its payload or by an exception of the callback)
\* frees the lock, so the handler that waited longest can take it.
C35_LockReleased ==
    /\ [] ( /\ noti_lock.holder # 0 =>
                  handlers[noti_lock.holder].pc \in { "next", "cb_s" }
            /\ \A h \in Handlers :
                  /\ handlers[h].pc \in { "next", "cb_s" } => noti_lock.holder = h
                  /\ handlers[h].pc = "wait" <=>
                        \E j \in 1 .. Len(noti_lock.waiters) : noti_lock.waiters[j] = h
            /\ noti_lock.holder = 0 /\ noti_lock.waiters # <<>> =>
                  handlers[Head(noti_lock.waiters)].pc = "wait" )
    /\ [][ \A h \in Handlers :
              handlers[h].pc \in { "next", "cb_s" } /\ handlers'[h].pc = "free" =>
                  noti_lock'.holder = 0 ]_vars

\* C35 witness: the handler of the payload with two frames has ended in the
\* callback invocation for its first frame (the second frame never reached the
\* window), by an exception that is not a TypeError, and the handler of a later
\* notification has taken the lock and is in its callback invocation.
C35_Witness ==
    \E h \in Handlers :
        /\ handlers[h].pc = "cb_s"
        /\ handlers[h].data = InFrame(1)
        /\ noti_lock.holder = h
        /\ \A g \in Handlers \ { h } : handlers[g].pc = "free"
        /\ InFrame(3) \in DOMAIN delivered
        /\ BadFrame \notin DOMAIN delivered
        /\ last_notifications = << JoinHex(InFrame(3)), JoinHex(InFrame(1)) >>

\* C36: an automatic reconnect leaves the caller's configuration unchanged.  No
\* step of a __reconnect task changes dc_callback, try_reconnect or
\* restart_notifications.  Checked under Spec.
C36_ConfigKept ==
    [][ ( \E r \in Clients :
            /\ reconn[r].pc \notin { "idle", "done" }
            /\ reconn'[r] # reconn[r] ) =>
                /\ dc_callback' = dc_callback
                /\ try_reconnect' = try_reconnect
                /\ restart_notifications' = restart_notifications ]_vars

(***************************************************************************)
(* A caller that does not want notifications restarted, checked under      *)
(* SpecQuiet: connect(try_reconnect=True, restart_notifications=False) on  *)
(* a new Bridge, notification_enable, and a link that breaks.              *)
(***************************************************************************)
QuietCallerStep ==
    \/ FirstConnect(None, TRUE, FALSE)
    \/ \E cb \in NotiCallbacks : SubscriberEnables(cb)
    \/ EnableReturns

NextQuiet ==
    \/ QuietCallerStep
    \/ ConnectStep
    \/ \E c \in Clients : LinkBreaks(c)
    \/ ReconnectDecision
    \/ ResubscribeStep
    \/ LifeNotification
    \/ HandlerStep

SpecQuiet == Init /\ [][NextQuiet]_vars

\* C37: no re-subscription when restart_notifications was False.  The __reconnect
\* task created when the first client lost its link (restart_notifications was
\* False then, as the caller's connect() had set it) does not call
\* notification_enable: it is never awaiting start_notify and ends without
\* having subscribed.
C37_NoResubscribe ==
    /\ reconn[1].pc # "enable"
    /\ reconn[1].enabled \in { "none", "skipped" }

\* C38: a send_signal call with random_id=True does not consume a counter value.
\* The step in which such a call takes its message ID leaves __next_send_id as
\* it was.  Checked under SpecSend.
C38_RandomKeepsCounter ==
    [][ \A t \in Senders :
          ( /\ senders[t].pc = "locked"
            /\ senders'[t].pc = "write"
            /\ senders[t].random_id ) =>
                next_send_id' = next_send_id ]_vars

\* C39: the user_disconnected tag is truthful.  Every invocation of the
\* disconnect callback with user_disconnected=True is made on a Bridge on which
\* the user has called disconnect() with _user=True since its last successful
\* connect (the Bridge keeps this in __user_disconnected: set by such a call on
\* a Bridge that has a client, cleared by a successful connect).  Checked under
\* Spec.
C39_TruthfulTag ==
    [][ Len(dc_calls') > Len(dc_calls) =>
            ( dc_calls'[Len(dc_calls')].ud => user_disconnected' ) ]_vars

\* C40: the handler never invokes an unset notification callback.  Whenever a
\* handler comes to an invocation of self.noti_callback (the unstructured one
\* for a payload without a frame, or the structured one for a frame that is not
\* in the duplicate window), noti_callback is a callback the caller registered,
\* not None.  Checked under SpecEnable.
C40_CallbackSet ==
    [][ \A h \in Handlers :
          ( \/ /\ handlers[h].pc = "start"
               /\ handlers'[h].pc # "start"
               /\ recv_signals(handlers[h].data) = <<>>
            \/ /\ handlers[h].pc = "next"
               /\ handlers'[h] # handlers[h]
               /\ handlers[h].i <= Len(handlers[h].sigs)
               /\ ~ InWindow(handlers[h].sigs[handlers[h].i], last_notifications) ) =>
                  noti_callback # None ]_vars

=============================================================================
